---- MODULE Spec2Model ----
(***************************************************************************)
(* Model of the Manila Payroll backend: the relational store set up by     *)
(* createTables (dbconfig), the department routes, the employee routes and *)
(* the terminal error handler of app.js.                                   *)
(*                                                                         *)
(* Every request is a process in a slot.  A handler runs without           *)
(* preemption between two awaits, and every await on pool.execute is one   *)
(* round trip to the store, so one action is one statement together with   *)
(* the handler code up to the next await (or up to the response).          *)
(*                                                                         *)
(* Text is a sequence of one-character strings (so LIKE '%s%' is a real    *)
(* substring test), a nullable integer column is <<>> (NULL) or <<n>>, and *)
(* a request body is a function from the keys it carries to their values:  *)
(* a key that is not in its DOMAIN is undefined in the handler.            *)
(***************************************************************************)
EXTENDS Integers, Sequences, FiniteSets, TLC

VARIABLES
    departments,   \* departments table: id -> [name, description]
    employees,     \* employees table:   id -> row
    nextDeptId,    \* AUTO_INCREMENT counter of departments
    nextEmpId,     \* AUTO_INCREMENT counter of employees
    clock,         \* CURRENT_TIMESTAMP, in whole seconds
    pc,            \* slot -> position of the request's handler
    req,           \* slot -> the request (kind, params, body, query)
    loc,           \* slot -> the handler's local variables
    res,           \* slot -> the response sent
    log,           \* slot -> the statements the request has sent to the store
    started,       \* number of requests received so far
    schema,        \* which tables the store has, and their structure
    pool,          \* dbconfig's `let pool`: 0 (undefined) or a pool
    pools,         \* the pools created by this process: pool -> its state
    inits,         \* number of calls of initializeDatabase in this process
    exited,        \* process.exit was called
    startups       \* number of times the process was started

vars == <<departments, employees, nextDeptId, nextEmpId, clock,
          pc, req, loc, res, log, started,
          schema, pool, pools, inits, exited, startups>>

\* the process and the structure of its store, apart from the requests
runtime == <<schema, pool, pools, inits, exited, startups>>

store == <<departments, employees, nextDeptId, nextEmpId, clock>>

----------------------------------------------------------------------------
(* Bounds *)

\* Requests received in one behaviour.
MaxRequests == 2

\* Requests in flight at the same time.
Slots == {1, 2}

----------------------------------------------------------------------------
(* Values *)

NULL == <<>>

Some(n) == <<n>>

Digits == <<"0", "1", "2", "3", "4", "5", "6", "7", "8", "9">>

IsDigit(c) == \E i \in 1..10 : Digits[i] = c

DigitVal(c) == (CHOOSE i \in 1..10 : Digits[i] = c) - 1

\* Number("12") = 12; only plain digit strings are numeric here.
RECURSIVE ToNum(_)
ToNum(s) ==
    IF s = <<>> THEN 0
    ELSE 10 * ToNum(SubSeq(s, 1, Len(s) - 1)) + DigitVal(s[Len(s)])

\* isNaN(id) of a route parameter (a string)
IsNaN(s) == \E i \in 1..Len(s) : ~IsDigit(s[i])

Has(b, k) == k \in DOMAIN b

\* JavaScript truthiness of a text field of the body: undefined and "" are falsy
TruthyText(b, k) == Has(b, k) /\ b[k] # <<>>

\* JavaScript truthiness of a nullable number: undefined, null and 0 are falsy
TruthyNum(b, k) == Has(b, k) /\ b[k] # NULL /\ b[k][1] # 0

\* s LIKE '%t%'
Contains(s, t) ==
    \E i \in 0..(Len(s) - Len(t)) : SubSeq(s, i + 1, i + Len(t)) = t

----------------------------------------------------------------------------
(* Responses *)

Resp(status, error, data) ==
    [status |-> status, error |-> error, data |-> data, count |-> 0]

NoResp == Resp(0, "", <<>>)

NoLoc == [insertId |-> 0, existing |-> <<>>]

----------------------------------------------------------------------------
(* The store: the schema of createTables and what it makes the store do *)

\* name VARCHAR(100) NOT NULL UNIQUE
DupDeptName(depts, name, self) ==
    \E d \in DOMAIN depts : d # self /\ depts[d].name = name

\* employee_id VARCHAR(20) UNIQUE NOT NULL
DupEmpCode(emps, code, self) ==
    \E e \in DOMAIN emps : e # self /\ emps[e].employee_id = code

\* email VARCHAR(100) UNIQUE NOT NULL
DupEmpEmail(emps, email, self) ==
    \E e \in DOMAIN emps : e # self /\ emps[e].email = email

\* FOREIGN KEY (department_id) REFERENCES departments(id): the child side
FkViolation(depts, deptId) ==
    deptId # NULL /\ deptId[1] \notin DOMAIN depts

\* OnDeleteSetNull of a foreign key that leaves the child rows alone (a mutant)
OnDeleteNoAction(emps, id) == emps

\* ... ON DELETE SET NULL: the parent side, applied when department id goes
OnDeleteSetNull(emps, id) ==
    [e \in DOMAIN emps |->
        IF emps[e].department_id = Some(id)
        THEN [emps[e] EXCEPT !.department_id = NULL]
        ELSE emps[e]]

\* EmpWriteError of a table without the UNIQUE columns (a mutant)
EmpWriteErrorNoUnique(emps, depts, row, self) ==
    IF FkViolation(depts, row.department_id)
    THEN "ER_NO_REFERENCED_ROW_2"
    ELSE ""

\* The error of INSERT/UPDATE of an employee row ("" when the store accepts it)
EmpWriteError(emps, depts, row, self) ==
    IF DupEmpCode(emps, row.employee_id, self)
       \/ DupEmpEmail(emps, row.email, self)
    THEN "ER_DUP_ENTRY"
    ELSE IF FkViolation(depts, row.department_id)
    THEN "ER_NO_REFERENCED_ROW_2"
    ELSE ""

\* The error of INSERT/UPDATE of a department row
DeptWriteError(depts, name, self) ==
    IF DupDeptName(depts, name, self) THEN "ER_DUP_ENTRY" ELSE ""

\* A table without row id
Without(table, ids) == [i \in DOMAIN table \ ids |-> table[i]]

\* A table with row id added or replaced
With(table, id, row) ==
    [i \in DOMAIN table \cup {id} |-> IF i = id THEN row ELSE table[i]]

\* id = ? against an INT column
RowsById(table, id) == {i \in DOMAIN table : i = id}

\* e.* joined with d.name, d.description (LEFT JOIN departments d)
Joined(emps, depts, e) ==
    LET r == emps[e]
        hasDept == r.department_id # NULL /\ r.department_id[1] \in DOMAIN depts
    IN  [id |-> e, row |-> r,
         department_name |->
            IF hasDept THEN Some(depts[r.department_id[1]].name) ELSE NULL,
         department_description |->
            IF hasDept THEN Some(depts[r.department_id[1]].description) ELSE NULL]

\* SELECT e.*, d.name ... WHERE e.id = ?: rows[0] as a sequence of 0 or 1 rows
FetchEmployee(emps, depts, id) ==
    IF id \in DOMAIN emps THEN <<Joined(emps, depts, id)>> ELSE <<>>

\* SELECT * FROM departments WHERE id = ?
FetchDepartment(depts, id) ==
    IF id \in DOMAIN depts THEN <<[id |-> id, row |-> depts[id]]>> ELSE <<>>

----------------------------------------------------------------------------
(* app.js: the terminal error handler, for a path under /api *)

ErrorHandler(code, message) ==
    IF code = "ER_DUP_ENTRY" THEN Resp(400, "Duplicate entry detected", <<>>)
    ELSE IF code = "ER_NO_SUCH_TABLE" THEN Resp(500, "Database table not found", <<>>)
    ELSE Resp(500, message, <<>>)

\* mysql2 refuses to execute a statement with an undefined bind parameter
UndefinedBind == "Bind parameters must not contain undefined"

----------------------------------------------------------------------------
(* Steps common to all handlers *)

\* res.status(..).json(..): the request is answered and its handler returns
Reply(s, r) ==
    /\ res' = [res EXCEPT ![s] = r]
    /\ pc' = [pc EXCEPT ![s] = "done"]

Goto(s, label) ==
    /\ pc' = [pc EXCEPT ![s] = label]
    /\ res' = res

\* one statement of request s reached the store
Sent(s, stmt) == log' = [log EXCEPT ![s] = Append(@, stmt)]

\* A string compared with an INT column: MySQL reads its leading digits
SqlInt(s) ==
    LET n == CHOOSE k \in 0..Len(s) :
                 /\ \A i \in 1..k : IsDigit(s[i])
                 /\ (k < Len(s) => ~IsDigit(s[k + 1]))
    IN  ToNum(SubSeq(s, 1, n))

----------------------------------------------------------------------------
(* routes/departments.js (the name + description variant) *)

\* DeptPostCheck without the lookup by name (a mutant)
DeptPostCheckNoLookup(s) ==
    /\ pc[s] = "dpost_check"
    /\ UNCHANGED <<store, req, loc, log, started, runtime>>
    /\ IF ~TruthyText(req[s].body, "name")
       THEN Reply(s, Resp(400, "Department name is required", <<>>))
       ELSE Goto(s, "dpost_insert")

\* POST /api/departments: the name check and SELECT id ... WHERE name = ?
DeptPostCheck(s) ==
    /\ pc[s] = "dpost_check"
    /\ UNCHANGED <<store, req, loc, started, runtime>>
    /\ IF ~TruthyText(req[s].body, "name")
       THEN /\ Reply(s, Resp(400, "Department name is required", <<>>))
            /\ UNCHANGED log
       ELSE /\ Sent(s, "SELECT departments")
            /\ IF DupDeptName(departments, req[s].body.name, 0)
               THEN Reply(s, Resp(400, "Department already exists", <<>>))
               ELSE Goto(s, "dpost_insert")

\* INSERT INTO departments (name, description) VALUES (?, ?), in try/catch
DeptPostInsert(s) ==
    /\ pc[s] = "dpost_insert"
    /\ UNCHANGED <<employees, nextEmpId, clock, req, started, runtime>>
    /\ IF ~Has(req[s].body, "description")
       THEN /\ Reply(s, Resp(500, "Failed to create department", <<>>))
            /\ UNCHANGED <<departments, nextDeptId, loc, log>>
       ELSE /\ Sent(s, "INSERT departments")
            /\ IF DeptWriteError(departments, req[s].body.name, 0) # ""
               THEN /\ Reply(s, Resp(500, "Failed to create department", <<>>))
                    /\ UNCHANGED <<departments, nextDeptId, loc>>
               ELSE /\ departments' = With(departments, nextDeptId,
                            [name |-> req[s].body.name,
                             description |-> req[s].body.description])
                    /\ nextDeptId' = nextDeptId + 1
                    /\ loc' = [loc EXCEPT ![s].insertId = nextDeptId]
                    /\ Goto(s, "dpost_fetch")

\* SELECT * FROM departments WHERE id = insertId, then 201
DeptPostFetch(s) ==
    /\ pc[s] = "dpost_fetch"
    /\ UNCHANGED <<store, req, loc, started, runtime>>
    /\ Sent(s, "SELECT departments")
    /\ Reply(s, Resp(201, "", FetchDepartment(departments, loc[s].insertId)))

\* PUT /api/departments/:id: SELECT id FROM departments WHERE id = ?
DeptPutExists(s) ==
    /\ pc[s] = "dput_exists"
    /\ UNCHANGED <<store, req, loc, started, runtime>>
    /\ Sent(s, "SELECT departments")
    /\ IF RowsById(departments, SqlInt(req[s].id)) = {}
       THEN Reply(s, Resp(404, "Department not found", <<>>))
       ELSE Goto(s, "dput_update")

\* UPDATE departments SET name = ?, description = ? WHERE id = ?, in try/catch
DeptPutUpdate(s) ==
    LET id == SqlInt(req[s].id) IN
    /\ pc[s] = "dput_update"
    /\ UNCHANGED <<employees, nextDeptId, nextEmpId, clock, req, loc, started, runtime>>
    /\ IF ~Has(req[s].body, "name") \/ ~Has(req[s].body, "description")
       THEN /\ Reply(s, Resp(500, "Failed to update department", <<>>))
            /\ UNCHANGED <<departments, log>>
       ELSE /\ Sent(s, "UPDATE departments")
            /\ IF id \notin DOMAIN departments
               THEN /\ UNCHANGED departments
                    /\ Goto(s, "dput_fetch")
               ELSE IF DeptWriteError(departments, req[s].body.name, id) # ""
               THEN /\ Reply(s, Resp(500, "Failed to update department", <<>>))
                    /\ UNCHANGED departments
               ELSE /\ departments' = With(departments, id,
                            [name |-> req[s].body.name,
                             description |-> req[s].body.description])
                    /\ Goto(s, "dput_fetch")

\* SELECT * FROM departments WHERE id = ?, then 200
DeptPutFetch(s) ==
    /\ pc[s] = "dput_fetch"
    /\ UNCHANGED <<store, req, loc, started, runtime>>
    /\ Sent(s, "SELECT departments")
    /\ Reply(s, Resp(200, "", FetchDepartment(departments, SqlInt(req[s].id))))

\* DELETE /api/departments/:id: SELECT id FROM departments WHERE id = ?
DeptDeleteExists(s) ==
    /\ pc[s] = "ddel_exists"
    /\ UNCHANGED <<store, req, loc, started, runtime>>
    /\ Sent(s, "SELECT departments")
    /\ IF RowsById(departments, SqlInt(req[s].id)) = {}
       THEN Reply(s, Resp(404, "Department not found", <<>>))
       ELSE Goto(s, "ddel_count")

\* EmployeesUsingDept with WHERE id = ? in place of department_id = ? (a mutant)
EmployeesUsingDeptById(emps, id) ==
    Cardinality({e \in DOMAIN emps : e = id})

\* SELECT COUNT(*) as count FROM employees WHERE department_id = ?
EmployeesUsingDept(emps, id) ==
    Cardinality({e \in DOMAIN emps : emps[e].department_id = Some(id)})

DeptDeleteCount(s) ==
    /\ pc[s] = "ddel_count"
    /\ UNCHANGED <<store, req, loc, started, runtime>>
    /\ Sent(s, "SELECT employees")
    /\ IF EmployeesUsingDept(employees, SqlInt(req[s].id)) > 0
       THEN Reply(s, Resp(400,
                "Cannot delete department that is assigned to employees", <<>>))
       ELSE Goto(s, "ddel_delete")

\* DELETE FROM departments WHERE id = ?, then 200
DeptDeleteDelete(s) ==
    LET id == SqlInt(req[s].id) IN
    /\ pc[s] = "ddel_delete"
    /\ UNCHANGED <<nextDeptId, nextEmpId, clock, req, loc, started, runtime>>
    /\ Sent(s, "DELETE departments")
    /\ departments' = Without(departments, {id})
    /\ employees' = IF id \in DOMAIN departments
                    THEN OnDeleteSetNull(employees, id)
                    ELSE employees
    /\ Reply(s, Resp(200, "", <<>>))

----------------------------------------------------------------------------
(* routes/employees.js: employeeSchema and validateEmployee *)

SchemaKeys ==
    {"employeeId", "firstName", "lastName", "email", "phone", "departmentId",
     "position", "salary", "hireDate", "status"}

\* Joi.string().required().max(n): present, not empty, at most n characters
RequiredText(b, k, n) == Has(b, k) /\ b[k] # <<>> /\ Len(b[k]) <= n

\* Joi.string().email(): one @ with text on both sides and a dotted domain
IsEmail(t) ==
    \E i \in 2..(Len(t) - 1) :
        /\ t[i] = "@"
        /\ \A j \in 1..Len(t) : t[j] = "@" => j = i
        /\ \E j \in (i + 2)..(Len(t) - 1) : t[j] = "."

\* SchemaAccepts with salary: Joi.number().required(), not positive() (a mutant)
SchemaAcceptsAnySalary(b) ==
    /\ DOMAIN b \subseteq SchemaKeys
    /\ RequiredText(b, "employeeId", 20)
    /\ RequiredText(b, "firstName", 50)
    /\ RequiredText(b, "lastName", 50)
    /\ RequiredText(b, "email", 100) /\ IsEmail(b.email)
    /\ Has(b, "phone") => Len(b.phone) <= 20
    /\ Has(b, "departmentId") => (b.departmentId = NULL \/ b.departmentId[1] > 0)
    /\ RequiredText(b, "position", 100)
    /\ Has(b, "salary")
    /\ Has(b, "hireDate")
    /\ Has(b, "status") => b.status \in {"active", "inactive"}

\* employeeSchema.validate(req.body) has no error
SchemaAccepts(b) ==
    /\ DOMAIN b \subseteq SchemaKeys
    /\ RequiredText(b, "employeeId", 20)
    /\ RequiredText(b, "firstName", 50)
    /\ RequiredText(b, "lastName", 50)
    /\ RequiredText(b, "email", 100) /\ IsEmail(b.email)
    /\ Has(b, "phone") => Len(b.phone) <= 20
    /\ Has(b, "departmentId") => (b.departmentId = NULL \/ b.departmentId[1] > 0)
    /\ RequiredText(b, "position", 100)
    /\ Has(b, "salary") /\ b.salary > 0
    /\ Has(b, "hireDate")
    /\ Has(b, "status") => b.status \in {"active", "inactive"}

\* the value of employeeSchema.validate: status defaults to "active"
SchemaValue(b) ==
    IF Has(b, "status") THEN b ELSE b @@ ("status" :> "active")

\* the bind parameters of INSERT/UPDATE employees hold no undefined
BindsDefined(b) == Has(b, "phone") /\ Has(b, "departmentId")

\* the row INSERT/UPDATE employees writes from the body
EmpRow(b, createdAt) ==
    [employee_id |-> b.employeeId, first_name |-> b.firstName,
     last_name |-> b.lastName, email |-> b.email, phone |-> b.phone,
     department_id |-> b.departmentId, position |-> b.position,
     salary |-> b.salary, hire_date |-> b.hireDate, status |-> b.status,
     created_at |-> createdAt]

----------------------------------------------------------------------------
(* routes/employees.js: POST /api/employees *)

\* validateEmployee (middleware)
EmpPostValidate(s) ==
    /\ pc[s] = "epost_validate"
    /\ UNCHANGED <<store, loc, log, started, runtime>>
    /\ IF SchemaAccepts(req[s].body)
       THEN /\ req' = [req EXCEPT ![s].body = SchemaValue(@)]
            /\ Goto(s, "epost_code")
       ELSE /\ Reply(s, Resp(400, "Validation failed", <<>>))
            /\ UNCHANGED req

\* SELECT id FROM employees WHERE employee_id = ?
EmpPostCode(s) ==
    /\ pc[s] = "epost_code"
    /\ UNCHANGED <<store, req, loc, started, runtime>>
    /\ Sent(s, "SELECT employees.employee_id")
    /\ IF DupEmpCode(employees, req[s].body.employeeId, 0)
       THEN Reply(s, Resp(400, "Employee ID already exists", <<>>))
       ELSE Goto(s, "epost_email")

\* SELECT id FROM employees WHERE email = ?
EmpPostEmail(s) ==
    /\ pc[s] = "epost_email"
    /\ UNCHANGED <<store, req, loc, started, runtime>>
    /\ Sent(s, "SELECT employees.email")
    /\ IF DupEmpEmail(employees, req[s].body.email, 0)
       THEN Reply(s, Resp(400, "Email already exists", <<>>))
       ELSE Goto(s, IF TruthyNum(req[s].body, "departmentId")
                    THEN "epost_dept" ELSE "epost_insert")

\* SELECT id FROM departments WHERE id = ?
EmpPostDept(s) ==
    /\ pc[s] = "epost_dept"
    /\ UNCHANGED <<store, req, loc, started, runtime>>
    /\ Sent(s, "SELECT departments")
    /\ IF RowsById(departments, req[s].body.departmentId[1]) = {}
       THEN Reply(s, Resp(400, "Department not found", <<>>))
       ELSE Goto(s, "epost_insert")

\* INSERT INTO employees (...) VALUES (...); asyncHandler passes an error on
EmpPostInsert(s) ==
    /\ pc[s] = "epost_insert"
    /\ UNCHANGED <<departments, nextDeptId, req, started, runtime>>
    /\ IF ~BindsDefined(req[s].body)
       THEN /\ Reply(s, ErrorHandler("", UndefinedBind))
            /\ UNCHANGED <<employees, nextEmpId, clock, loc, log>>
       ELSE /\ Sent(s, "INSERT employees")
            /\ \E now \in {clock, clock + 1} :
                LET row == EmpRow(req[s].body, now)
                    err == EmpWriteError(employees, departments, row, 0)
                IN  IF err # ""
                    THEN /\ Reply(s, ErrorHandler(err, err))
                         /\ UNCHANGED <<employees, nextEmpId, clock, loc>>
                    ELSE /\ employees' = With(employees, nextEmpId, row)
                         /\ nextEmpId' = nextEmpId + 1
                         /\ clock' = now
                         /\ loc' = [loc EXCEPT ![s].insertId = nextEmpId]
                         /\ Goto(s, "epost_fetch")

\* SELECT e.*, d.name ... WHERE e.id = insertId, then 201
EmpPostFetch(s) ==
    /\ pc[s] = "epost_fetch"
    /\ UNCHANGED <<store, req, loc, started, runtime>>
    /\ Sent(s, "SELECT employees")
    /\ Reply(s, Resp(201, "",
                FetchEmployee(employees, departments, loc[s].insertId)))

----------------------------------------------------------------------------
(* routes/employees.js: PUT /api/employees/:id *)

\* validateEmployee, then the handler's !id || isNaN(id)
EmpPutValidate(s) ==
    /\ pc[s] = "eput_validate"
    /\ UNCHANGED <<store, loc, log, started, runtime>>
    /\ IF ~SchemaAccepts(req[s].body)
       THEN /\ Reply(s, Resp(400, "Validation failed", <<>>))
            /\ UNCHANGED req
       ELSE /\ req' = [req EXCEPT ![s].body = SchemaValue(@)]
            /\ IF req[s].id = <<>> \/ IsNaN(req[s].id)
               THEN Reply(s, Resp(400, "Invalid employee ID", <<>>))
               ELSE Goto(s, "eput_exists")

\* SELECT * FROM employees WHERE id = ?
EmpPutExists(s) ==
    /\ pc[s] = "eput_exists"
    /\ UNCHANGED <<store, req, loc, started, runtime>>
    /\ Sent(s, "SELECT employees")
    /\ IF RowsById(employees, ToNum(req[s].id)) = {}
       THEN Reply(s, Resp(404, "Employee not found", <<>>))
       ELSE Goto(s, "eput_code")

\* EmpPutCode without AND id != ? (a mutant)
EmpPutCodeIncludingSelf(s) ==
    /\ pc[s] = "eput_code"
    /\ UNCHANGED <<store, req, loc, started, runtime>>
    /\ Sent(s, "SELECT employees.employee_id")
    /\ IF DupEmpCode(employees, req[s].body.employeeId, 0)
       THEN Reply(s, Resp(400, "Employee ID already exists", <<>>))
       ELSE Goto(s, "eput_email")

\* SELECT id FROM employees WHERE employee_id = ? AND id != ?
EmpPutCode(s) ==
    /\ pc[s] = "eput_code"
    /\ UNCHANGED <<store, req, loc, started, runtime>>
    /\ Sent(s, "SELECT employees.employee_id")
    /\ IF DupEmpCode(employees, req[s].body.employeeId, ToNum(req[s].id))
       THEN Reply(s, Resp(400, "Employee ID already exists", <<>>))
       ELSE Goto(s, "eput_email")

\* SELECT id FROM employees WHERE email = ? AND id != ?
EmpPutEmail(s) ==
    /\ pc[s] = "eput_email"
    /\ UNCHANGED <<store, req, loc, started, runtime>>
    /\ Sent(s, "SELECT employees.email")
    /\ IF DupEmpEmail(employees, req[s].body.email, ToNum(req[s].id))
       THEN Reply(s, Resp(400, "Email already exists", <<>>))
       ELSE Goto(s, IF TruthyNum(req[s].body, "departmentId")
                    THEN "eput_dept" ELSE "eput_update")

\* SELECT id FROM departments WHERE id = ?
EmpPutDept(s) ==
    /\ pc[s] = "eput_dept"
    /\ UNCHANGED <<store, req, loc, started, runtime>>
    /\ Sent(s, "SELECT departments")
    /\ IF RowsById(departments, req[s].body.departmentId[1]) = {}
       THEN Reply(s, Resp(400, "Department not found", <<>>))
       ELSE Goto(s, "eput_update")

\* UPDATE employees SET ... WHERE id = ?; asyncHandler passes an error on
EmpPutUpdate(s) ==
    LET id == ToNum(req[s].id) IN
    /\ pc[s] = "eput_update"
    /\ UNCHANGED <<departments, nextDeptId, nextEmpId, clock, req, loc, started, runtime>>
    /\ IF ~BindsDefined(req[s].body)
       THEN /\ Reply(s, ErrorHandler("", UndefinedBind))
            /\ UNCHANGED <<employees, log>>
       ELSE /\ Sent(s, "UPDATE employees")
            /\ IF id \notin DOMAIN employees
               THEN /\ UNCHANGED employees
                    /\ Goto(s, "eput_fetch")
               ELSE LET row == EmpRow(req[s].body, employees[id].created_at)
                        err == EmpWriteError(employees, departments, row, id)
                    IN  IF err # ""
                        THEN /\ Reply(s, ErrorHandler(err, err))
                             /\ UNCHANGED employees
                        ELSE /\ employees' = With(employees, id, row)
                             /\ Goto(s, "eput_fetch")

\* SELECT e.*, d.name ... WHERE e.id = ?, then 200
EmpPutFetch(s) ==
    /\ pc[s] = "eput_fetch"
    /\ UNCHANGED <<store, req, loc, started, runtime>>
    /\ Sent(s, "SELECT employees")
    /\ Reply(s, Resp(200, "",
                FetchEmployee(employees, departments, ToNum(req[s].id))))

----------------------------------------------------------------------------
(* routes/employees.js: DELETE /api/employees/:id and DELETE /api/employees *)

\* !id || isNaN(id), then SELECT e.*, d.name ... WHERE e.id = ?
EmpDeleteExists(s) ==
    /\ pc[s] = "edel_exists"
    /\ UNCHANGED <<store, req, started, runtime>>
    /\ IF req[s].id = <<>> \/ IsNaN(req[s].id)
       THEN /\ Reply(s, Resp(400, "Invalid employee ID", <<>>))
            /\ UNCHANGED <<loc, log>>
       ELSE /\ Sent(s, "SELECT employees")
            /\ LET existing == FetchEmployee(employees, departments,
                                             ToNum(req[s].id))
               IN  IF existing = <<>>
                   THEN /\ Reply(s, Resp(404, "Employee not found", <<>>))
                        /\ UNCHANGED loc
                   ELSE /\ loc' = [loc EXCEPT ![s].existing = existing]
                        /\ Goto(s, "edel_delete")

\* DELETE FROM employees WHERE id = ?, then 200 with the row read before
EmpDeleteDelete(s) ==
    /\ pc[s] = "edel_delete"
    /\ UNCHANGED <<departments, nextDeptId, nextEmpId, clock, req, loc, started, runtime>>
    /\ Sent(s, "DELETE employees")
    /\ employees' = Without(employees, {ToNum(req[s].id)})
    /\ Reply(s, Resp(200, "", loc[s].existing))

\* An element of ids is a number, kept in tenths (15 is 1.5), or a string.
\* !isNaN(id) && id > 0
ValidId(x) ==
    IF x.t = "num" THEN x.tenths > 0
    ELSE x.s # <<>> /\ ~IsNaN(x.s) /\ ToNum(x.s) > 0

\* the rows id IN (...) selects: an INT id equals a whole number only
IdsMatched(emps, validIds) ==
    {e \in DOMAIN emps :
        \E i \in 1..Len(validIds) :
            IF validIds[i].t = "num" THEN validIds[i].tenths = 10 * e
            ELSE ToNum(validIds[i].s) = e}

\* DELETE /api/employees with body {ids}
EmpBulkDelete(s) ==
    /\ pc[s] = "ebulk"
    /\ UNCHANGED <<departments, nextDeptId, nextEmpId, clock, req, loc, started, runtime>>
    /\ IF ~Has(req[s].body, "ids") \/ req[s].body.ids = <<>>
       THEN /\ Reply(s, Resp(400, "Employee IDs are required", <<>>))
            /\ UNCHANGED <<employees, log>>
       ELSE LET validIds == SelectSeq(req[s].body.ids, ValidId)
                gone == IdsMatched(employees, validIds)
            IN  IF validIds = <<>>
                THEN /\ Reply(s, Resp(400, "Valid employee IDs are required", <<>>))
                     /\ UNCHANGED <<employees, log>>
                ELSE /\ Sent(s, "DELETE employees")
                     /\ employees' = Without(employees, gone)
                     /\ Reply(s, [Resp(200, "", <<>>) EXCEPT
                                    !.count = Cardinality(gone)])

----------------------------------------------------------------------------
(* The requests a client sends *)

HR == <<"h", "r">>
IT == <<"i", "t">>
FIN == <<"f", "i", "n">>
Desc == <<"d">>
E1 == <<"e", "1">>
E2 == <<"e", "2">>
E3 == <<"e", "3">>
Mail(c) == <<c, "@", "m", ".", "p", "h">>

Request(kind, id, body) == [kind |-> kind, id |-> id, body |-> body]

\* A complete, valid employee body
Body(code, mail, dept, status, salary) ==
    [employeeId |-> code, firstName |-> <<"j">>, lastName |-> <<"c">>,
     email |-> mail, phone |-> <<>>, departmentId |-> dept,
     position |-> <<"h", "r">>, salary |-> salary, hireDate |-> 1,
     status |-> status]

Drop(b, k) == [x \in DOMAIN b \ {k} |-> b[x]]

DeptRequests ==
    {Request("DeptPost", <<>>, b) :
        b \in {[name |-> HR, description |-> Desc],
               [name |-> FIN, description |-> Desc],
               [name |-> FIN],
               [description |-> Desc]}}
    \cup {Request("DeptPut", id, b) :
        id \in {<<"2">>, <<"9">>},
        b \in {[name |-> HR, description |-> Desc],
               [name |-> FIN, description |-> Desc]}}
    \cup {Request("DeptDelete", id, <<>>) : id \in {<<"1">>, <<"2">>, <<"9">>}}

EmpBodies ==
    {Body(E3, Mail("c"), Some(2), "active", 40),
     Body(E3, Mail("c"), NULL, "inactive", 40),
     Body(E1, Mail("c"), Some(2), "active", 40),
     Body(E3, Mail("a"), Some(2), "active", 40),
     Body(E3, Mail("c"), Some(9), "active", 40),
     Body(E3, Mail("c"), Some(2), "active", 0),
     Body(E3, <<"c", ".", "m">>, Some(2), "active", 40),
     Drop(Drop(Body(E3, Mail("c"), NULL, "active", 40), "departmentId"), "status")}

EmpRequests ==
    {Request("EmpPost", <<>>, b) : b \in EmpBodies}
    \cup {Request("EmpPut", id, b) :
        id \in {<<"1">>, <<"9">>},
        b \in {Body(E1, Mail("a"), Some(2), "inactive", 60),
               Body(E2, Mail("a"), Some(1), "active", 50),
               Body(E1, Mail("b"), NULL, "active", 50),
               Body(E3, Mail("c"), Some(2), "active", 0)}}
    \cup {Request("EmpPut", <<"x">>, Body(E1, Mail("a"), Some(2), "inactive", 60))}
    \cup {Request("EmpDelete", id, <<>>) : id \in {<<"1">>, <<"3">>, <<"x">>}}
    \cup {Request("EmpBulkDelete", <<>>, b) :
        b \in {[ids |-> <<[t |-> "num", tenths |-> 10], [t |-> "str", s |-> <<"x">>],
                          [t |-> "num", tenths |-> 0], [t |-> "str", s |-> <<"3">>]>>],
               [ids |-> <<[t |-> "str", s |-> <<"x">>], [t |-> "num", tenths |-> -10]>>],
               [ids |-> <<[t |-> "num", tenths |-> 15], [t |-> "str", s |-> <<"x">>]>>],
               <<>>}}

Requests == DeptRequests \cup EmpRequests

\* the first step of the handler of each kind of request
Entry(kind) ==
    CASE kind = "DeptPost" -> "dpost_check"
      [] kind = "DeptPut" -> "dput_exists"
      [] kind = "DeptDelete" -> "ddel_exists"
      [] kind = "EmpPost" -> "epost_validate"
      [] kind = "EmpPut" -> "eput_validate"
      [] kind = "EmpDelete" -> "edel_exists"
      [] kind = "EmpBulkDelete" -> "ebulk"

Free(s) == pc[s] \in {"idle", "done"}

\* A request arrives and is dispatched to its route (in the first free slot)
Start(s) ==
    /\ Free(s)
    /\ \A t \in Slots : t < s => ~Free(t)
    /\ started < MaxRequests
    /\ started' = started + 1
    /\ \E r \in Requests :
        /\ req' = [req EXCEPT ![s] = r]
        /\ pc' = [pc EXCEPT ![s] = Entry(r.kind)]
    /\ loc' = [loc EXCEPT ![s] = NoLoc]
    /\ res' = [res EXCEPT ![s] = NoResp]
    /\ log' = [log EXCEPT ![s] = <<>>]
    /\ UNCHANGED <<store, runtime>>

----------------------------------------------------------------------------
(* The system *)

\* The process is up: the tables exist in their current structure and
\* getPool has initialized the database once and keeps its pool
Running ==
    /\ schema = [departments |-> TRUE, employees |-> "new", department_id |-> TRUE]
    /\ pool = 1
    /\ pools = <<"open">>
    /\ inits = 1
    /\ exited = FALSE
    /\ startups = 1

\* The store a run starts from: two of the departments and two of the
\* employees that createTables seeds, department 2 without employees.
Init ==
    /\ departments = (1 :> [name |-> HR, description |-> Desc])
                     @@ (2 :> [name |-> IT, description |-> Desc])
    /\ employees = (1 :> EmpRow(Body(E1, Mail("a"), Some(1), "active", 50), 0))
                   @@ (2 :> EmpRow(Body(E2, Mail("b"), Some(1), "active", 70), 0))
    /\ nextDeptId = 3
    /\ nextEmpId = 3
    /\ clock = 0
    /\ pc = [s \in Slots |-> "idle"]
    /\ req = [s \in Slots |-> Request("none", <<>>, <<>>)]
    /\ loc = [s \in Slots |-> NoLoc]
    /\ res = [s \in Slots |-> NoResp]
    /\ log = [s \in Slots |-> <<>>]
    /\ started = 0
    /\ Running

Next ==
    \E s \in Slots :
        \/ Start(s)
        \/ DeptPostCheck(s) \/ DeptPostInsert(s) \/ DeptPostFetch(s)
        \/ DeptPutExists(s) \/ DeptPutUpdate(s) \/ DeptPutFetch(s)
        \/ DeptDeleteExists(s) \/ DeptDeleteCount(s) \/ DeptDeleteDelete(s)
        \/ EmpPostValidate(s) \/ EmpPostCode(s) \/ EmpPostEmail(s)
        \/ EmpPostDept(s) \/ EmpPostInsert(s) \/ EmpPostFetch(s)
        \/ EmpPutValidate(s) \/ EmpPutExists(s) \/ EmpPutCode(s)
        \/ EmpPutEmail(s) \/ EmpPutDept(s) \/ EmpPutUpdate(s) \/ EmpPutFetch(s)
        \/ EmpDeleteExists(s) \/ EmpDeleteDelete(s) \/ EmpBulkDelete(s)

Spec == Init /\ [][Next]_vars

----------------------------------------------------------------------------
(* routes/employees.js: GET /api/employees *)

\* page = 1, limit = 10 when the query string does not give them
DefaultPage == 1
DefaultLimit == 10

Lower == <<"a", "b", "c", "d", "e", "f", "g", "h", "i", "j", "k", "l", "m",
           "n", "o", "p", "q", "r", "s", "t", "u", "v", "w", "x", "y", "z">>
Upper == <<"A", "B", "C", "D", "E", "F", "G", "H", "I", "J", "K", "L", "M",
           "N", "O", "P", "Q", "R", "S", "T", "U", "V", "W", "X", "Y", "Z">>

\* sortOrder.toUpperCase()
ToUpperCase(t) ==
    [i \in 1..Len(t) |->
        IF \E k \in 1..26 : Lower[k] = t[i]
        THEN Upper[CHOOSE k \in 1..26 : Lower[k] = t[i]]
        ELSE t[i]]

ASC == <<"A", "S", "C">>
DESC == <<"D", "E", "S", "C">>

validSortColumns ==
    {"id", "employee_id", "first_name", "last_name", "department_name",
     "salary", "hire_date", "created_at"}

validSortOrders == {ASC, DESC}

\* a parameter of the query string is given and not empty
TruthyQ(q, k) == Has(q, k) /\ q[k] # <<>>

\* the same for status, which the model keeps as a whole string
TruthyStatus(q) == Has(q, "status") /\ q.status # ""

\* the order of the characters of the model under the store's collation
Collation ==
    <<".", "@">> \o Digits \o Lower

CharRank(c) == CHOOSE i \in 1..Len(Collation) : Collation[i] = c

\* a < b for two texts
TextLess(a, b) ==
    \E k \in 1..(Len(a) + 1) :
        /\ \A i \in 1..(k - 1) : i <= Len(b) /\ a[i] = b[i]
        /\ k <= Len(b)
        /\ (k <= Len(a) => CharRank(a[k]) < CharRank(b[k]))

\* joined row x sorts strictly before joined row y under ORDER BY col ASC
Before(x, y, col) ==
    CASE col = "id" -> x.id < y.id
      [] col = "salary" -> x.row.salary < y.row.salary
      [] col = "hire_date" -> x.row.hire_date < y.row.hire_date
      [] col = "created_at" -> x.row.created_at < y.row.created_at
      [] col = "employee_id" -> TextLess(x.row.employee_id, y.row.employee_id)
      [] col = "first_name" -> TextLess(x.row.first_name, y.row.first_name)
      [] col = "last_name" -> TextLess(x.row.last_name, y.row.last_name)
      [] col = "department_name" ->
            /\ y.department_name # NULL
            /\ (x.department_name # NULL
                    => TextLess(x.department_name[1], y.department_name[1]))

\* OrderBy with validSortOrders.includes(sortOrder), no toUpperCase (a mutant)
OrderByCaseSensitive(q) ==
    LET sortBy == IF Has(q, "sortBy") THEN q.sortBy ELSE "created_at"
        sortOrder == IF Has(q, "sortOrder") THEN q.sortOrder ELSE DESC
    IN  IF sortBy \in validSortColumns /\ sortOrder \in validSortOrders
        THEN [col |-> sortBy, dir |-> sortOrder]
        ELSE [col |-> "created_at", dir |-> DESC]

\* the ORDER BY the handler appends: the column and the direction
OrderBy(q) ==
    LET sortBy == IF Has(q, "sortBy") THEN q.sortBy ELSE "created_at"
        sortOrder == IF Has(q, "sortOrder") THEN q.sortOrder ELSE DESC
    IN  IF sortBy \in validSortColumns /\ ToUpperCase(sortOrder) \in validSortOrders
        THEN [col |-> sortBy, dir |-> ToUpperCase(sortOrder)]
        ELSE [col |-> "created_at", dir |-> DESC]

\* the sequences of the rows ids in which no row comes after a row it sorts
\* strictly before: first[x, y] says that x may come before y
RECURSIVE OrdersOf(_, _)
OrdersOf(ids, first) ==
    IF ids = {} THEN {<<>>}
    ELSE UNION {{<<m>> \o o : o \in OrdersOf(ids \ {m}, first)} :
                    m \in {x \in ids : \A y \in ids : first[x, y]}}

\* the orders in which the store may return the rows ids under ORDER BY:
\* rows with equal keys come in any order
SortedOrders(emps, depts, ids, ob) ==
    LET J == [e \in ids |-> Joined(emps, depts, e)]
    IN  OrdersOf(ids, [x \in ids, y \in ids |->
                        IF ob.dir = ASC THEN ~Before(J[y], J[x], ob.col)
                        ELSE ~Before(J[x], J[y], ob.col)])

\* LIMIT limit OFFSET offset
LimitOffset(o, limit, offset) ==
    SubSeq(o, offset + 1, IF offset + limit < Len(o) THEN offset + limit ELSE Len(o))

\* (e.employee_id LIKE ? OR e.first_name LIKE ? OR ... OR d.name LIKE ?)
SearchMatches(j, t) ==
    \/ Contains(j.row.employee_id, t)
    \/ Contains(j.row.first_name, t)
    \/ Contains(j.row.last_name, t)
    \/ Contains(j.row.email, t)
    \/ Contains(j.row.position, t)
    \/ (j.department_name # NULL /\ Contains(j.department_name[1], t))

\* CountWhere without AND e.status = ? (a mutant)
CountWhereNoStatus(emps, depts, e, q) ==
    LET j == Joined(emps, depts, e) IN
    /\ TruthyQ(q, "search") => SearchMatches(j, q.search)
    /\ TruthyQ(q, "departmentId") =>
            j.row.department_id = Some(SqlInt(q.departmentId))

\* the WHERE clause of the data query
DataWhere(emps, depts, e, q) ==
    LET j == Joined(emps, depts, e) IN
    /\ TruthyQ(q, "search") => SearchMatches(j, q.search)
    /\ TruthyQ(q, "departmentId") =>
            j.row.department_id = Some(SqlInt(q.departmentId))
    /\ TruthyStatus(q) => j.row.status = q.status

\* the WHERE clause of the count query
CountWhere(emps, depts, e, q) ==
    LET j == Joined(emps, depts, e) IN
    /\ TruthyQ(q, "search") => SearchMatches(j, q.search)
    /\ TruthyQ(q, "departmentId") =>
            j.row.department_id = Some(SqlInt(q.departmentId))
    /\ TruthyStatus(q) => j.row.status = q.status

\* page and limit as numbers: Number(page), Number.parseInt(limit)
PageOf(q) == IF Has(q, "page") THEN ToNum(q.page) ELSE DefaultPage
LimitOf(q) == IF Has(q, "limit") THEN ToNum(q.limit) ELSE DefaultLimit

\* Math.ceil(total / limit), as res.json writes it: null when it is not finite
Pages(total, limit) ==
    IF limit = 0 THEN NULL
    ELSE Some((total + limit - 1) \div limit)

\* the data query: SELECT e.*, d.name ... WHERE ... ORDER BY ... LIMIT ? OFFSET ?
EmpListData(s) ==
    LET q == req[s].query
        offset == (PageOf(q) - 1) * LimitOf(q)
        ids == {e \in DOMAIN employees : DataWhere(employees, departments, e, q)}
    IN
    /\ pc[s] = "elist_data"
    /\ UNCHANGED <<store, req, started, runtime>>
    /\ Sent(s, "SELECT employees")
    /\ IF offset < 0
       THEN /\ Reply(s, ErrorHandler("ER_WRONG_ARGUMENTS", "ER_WRONG_ARGUMENTS"))
            /\ UNCHANGED loc
       ELSE \E o \in SortedOrders(employees, departments, ids, OrderBy(q)) :
            /\ loc' = [loc EXCEPT ![s].existing =
                    LimitOffset([i \in 1..Len(o) |->
                                    Joined(employees, departments, o[i])],
                                LimitOf(q), offset)]
            /\ Goto(s, "elist_count")

\* the count query: SELECT COUNT(*) as total ... WHERE ..., then the response
EmpListCount(s) ==
    LET q == req[s].query
        total == Cardinality({e \in DOMAIN employees :
                                CountWhere(employees, departments, e, q)})
    IN
    /\ pc[s] = "elist_count"
    /\ UNCHANGED <<store, req, loc, started, runtime>>
    /\ Sent(s, "SELECT COUNT employees")
    /\ Reply(s, Resp(200, "", loc[s].existing) @@
                [pagination |-> [page |-> PageOf(q), limit |-> LimitOf(q),
                                 total |-> total,
                                 pages |-> Pages(total, LimitOf(q))]])

\* the query strings a client sends
Queries ==
    {[k \in keys |-> full[k]] :
        keys \in SUBSET {"search", "departmentId", "status", "page", "limit",
                         "sortBy", "sortOrder"},
        full \in [search : {<<"1">>, <<"i">>},
                  departmentId : {<<"1">>},
                  status : {"active"},
                  page : {<<"2">>, <<"3">>, <<"0">>},
                  limit : {<<"1">>, <<"2">>, <<"0">>},
                  sortBy : {"salary", "bogus"},
                  sortOrder : {<<"a", "s", "c">>, <<"u", "p">>}]}

ListRequests ==
    {[kind |-> "EmpList", id |-> <<>>, body |-> <<>>, query |-> q] : q \in Queries}

\* the requests that change the employees table while a list request runs
ListMutations ==
    {Request("EmpPost", <<>>, Body(<<"e", "9">>, Mail("i"), Some(1), "active", 60)),
     Request("EmpDelete", <<"1">>, <<>>)}

\* One list request arrives, in slot 1 (a list request changes nothing, so a
\* second one would see what the first can see), and the requests that change
\* the table arrive in slot 2
StartList(s) ==
    /\ IF s = 1 THEN pc[s] = "idle" ELSE Free(s)
    /\ started < MaxRequests
    /\ started' = started + 1
    /\ \E r \in IF s = 1 THEN ListRequests ELSE ListMutations :
        /\ req' = [req EXCEPT ![s] = r]
        /\ pc' = [pc EXCEPT ![s] =
                    IF r.kind = "EmpList" THEN "elist_data" ELSE Entry(r.kind)]
    /\ loc' = [loc EXCEPT ![s] = NoLoc]
    /\ res' = [res EXCEPT ![s] = NoResp]
    /\ log' = [log EXCEPT ![s] = <<>>]
    /\ UNCHANGED <<store, runtime>>

\* A store with four employees: two departments, one employee without a
\* department, one inactive, equal salaries and equal creation times.
InitList ==
    /\ departments = (1 :> [name |-> HR, description |-> Desc])
                     @@ (2 :> [name |-> IT, description |-> Desc])
    /\ employees =
         (1 :> EmpRow(Body(E1, Mail("a"), Some(1), "active", 50), 0))
         @@ (2 :> EmpRow(Body(E2, Mail("b"), Some(1), "active", 70), 0))
         @@ (3 :> EmpRow(Body(E3, Mail("c"), Some(2), "inactive", 50), 1))
         @@ (4 :> EmpRow(Body(<<"e", "4">>, Mail("d"), NULL, "active", 30), 1))
    /\ nextDeptId = 3
    /\ nextEmpId = 5
    /\ clock = 1
    /\ pc = [s \in Slots |-> "idle"]
    /\ req = [s \in Slots |-> Request("none", <<>>, <<>>)]
    /\ loc = [s \in Slots |-> NoLoc]
    /\ res = [s \in Slots |-> NoResp]
    /\ log = [s \in Slots |-> <<>>]
    /\ started = 0
    /\ Running

NextList ==
    \E s \in Slots :
        \/ StartList(s)
        \/ EmpListData(s) \/ EmpListCount(s)
        \/ EmpPostValidate(s) \/ EmpPostCode(s) \/ EmpPostEmail(s)
        \/ EmpPostDept(s) \/ EmpPostInsert(s) \/ EmpPostFetch(s)
        \/ EmpDeleteExists(s) \/ EmpDeleteDelete(s)

SpecList == InitList /\ [][NextList]_vars

----------------------------------------------------------------------------
(* GET /api/employees: the sort parameters *)

\* the query strings that give sortBy and sortOrder, in several letter cases
SortQueries ==
    {[k \in keys |-> full[k]] :
        keys \in SUBSET {"sortBy", "sortOrder"},
        full \in [sortBy : {"salary", "department_name", "employee_id", "id",
                            "email", "Salary", "bogus"},
                  sortOrder : {<<"a", "s", "c">>, <<"A", "S", "C">>,
                               <<"D", "e", "s", "C">>, <<"d", "e", "s", "c">>,
                               <<"u", "p">>}]}

SortRequests ==
    {[kind |-> "EmpList", id |-> <<>>, body |-> <<>>, query |-> q] :
        q \in SortQueries}

\* One list request arrives in slot 1 and the requests that change the table
\* arrive in slot 2
StartSort(s) ==
    /\ IF s = 1 THEN pc[s] = "idle" ELSE Free(s)
    /\ started < MaxRequests
    /\ started' = started + 1
    /\ \E r \in IF s = 1 THEN SortRequests ELSE ListMutations :
        /\ req' = [req EXCEPT ![s] = r]
        /\ pc' = [pc EXCEPT ![s] =
                    IF r.kind = "EmpList" THEN "elist_data" ELSE Entry(r.kind)]
    /\ loc' = [loc EXCEPT ![s] = NoLoc]
    /\ res' = [res EXCEPT ![s] = NoResp]
    /\ log' = [log EXCEPT ![s] = <<>>]
    /\ UNCHANGED <<store, runtime>>

NextSort ==
    \E s \in Slots :
        \/ StartSort(s)
        \/ EmpListData(s) \/ EmpListCount(s)
        \/ EmpPostValidate(s) \/ EmpPostCode(s) \/ EmpPostEmail(s)
        \/ EmpPostDept(s) \/ EmpPostInsert(s) \/ EmpPostFetch(s)
        \/ EmpDeleteExists(s) \/ EmpDeleteDelete(s)

SpecSort == InitList /\ [][NextSort]_vars

----------------------------------------------------------------------------
(* routes/employees.js: GET /api/employees/:id *)

\* the decimal digits of a number, as a path segment of the URL carries it
RECURSIVE ToStr(_)
ToStr(n) ==
    IF n < 10 THEN <<Digits[n + 1]>>
    ELSE ToStr(n \div 10) \o <<Digits[(n % 10) + 1]>>

\* EmpGetFetch with SELECT e.* and no LEFT JOIN departments (a mutant)
EmpGetFetchNoJoin(s) ==
    /\ pc[s] = "eget"
    /\ UNCHANGED <<store, req, loc, started, runtime>>
    /\ IF req[s].id = <<>> \/ IsNaN(req[s].id)
       THEN /\ Reply(s, Resp(400, "Invalid employee ID", <<>>))
            /\ UNCHANGED log
       ELSE /\ Sent(s, "SELECT employees")
            /\ LET rows == FetchEmployee(employees, departments, ToNum(req[s].id))
               IN  IF rows = <<>>
                   THEN Reply(s, Resp(404, "Employee not found", <<>>))
                   ELSE Reply(s, Resp(200, "",
                            <<[rows[1] EXCEPT !.department_name = NULL,
                                              !.department_description = NULL]>>))

\* !id || isNaN(id), then SELECT e.*, d.name ... WHERE e.id = ? and rows[0]
EmpGetFetch(s) ==
    /\ pc[s] = "eget"
    /\ UNCHANGED <<store, req, loc, started, runtime>>
    /\ IF req[s].id = <<>> \/ IsNaN(req[s].id)
       THEN /\ Reply(s, Resp(400, "Invalid employee ID", <<>>))
            /\ UNCHANGED log
       ELSE /\ Sent(s, "SELECT employees")
            /\ LET rows == FetchEmployee(employees, departments, ToNum(req[s].id))
               IN  IF rows = <<>>
                   THEN Reply(s, Resp(404, "Employee not found", <<>>))
                   ELSE Reply(s, Resp(200, "", rows))

\* the bodies a client creates employees with
RoundTripBodies ==
    EmpBodies
    \cup {Body(E3, Mail("c"), Some(1), "inactive", 40),
          Body(<<"e", "4">>, Mail("d"), Some(2), "active", 90),
          Body(<<"e", "5">>, Mail("e"), NULL, "active", 10),
          Drop(Body(E3, Mail("c"), Some(1), "active", 40), "status")}

\* A client creates an employee (slot 1) and, once it has the answer, reads
\* the employee back by the id of the record it was given (slot 2); slot 2
\* also reads other ids at any time.
StartRoundTrip(s) ==
    /\ IF s = 1 THEN pc[s] = "idle" ELSE Free(s)
    /\ started < MaxRequests
    /\ started' = started + 1
    /\ \E r \in IF s = 1
                THEN {Request("EmpPost", <<>>, b) : b \in RoundTripBodies}
                ELSE {Request("EmpGet", id, <<>>) : id \in {<<"1">>, <<"9">>, <<"x">>}}
                     \cup {Request("EmpGet", ToStr(res[1].data[1].id), <<>>) :
                            x \in {y \in {1} : /\ req[1].kind = "EmpPost"
                                               /\ pc[1] = "done"
                                               /\ res[1].status = 201
                                               /\ res[1].data # <<>>}} :
        /\ req' = [req EXCEPT ![s] = r]
        /\ pc' = [pc EXCEPT ![s] = IF r.kind = "EmpGet" THEN "eget" ELSE Entry(r.kind)]
    /\ loc' = [loc EXCEPT ![s] = NoLoc]
    /\ res' = [res EXCEPT ![s] = NoResp]
    /\ log' = [log EXCEPT ![s] = <<>>]
    /\ UNCHANGED <<store, runtime>>

NextRoundTrip ==
    \E s \in Slots :
        \/ StartRoundTrip(s)
        \/ EmpPostValidate(s) \/ EmpPostCode(s) \/ EmpPostEmail(s)
        \/ EmpPostDept(s) \/ EmpPostInsert(s) \/ EmpPostFetch(s)
        \/ EmpGetFetch(s)

SpecRoundTrip == Init /\ [][NextRoundTrip]_vars

----------------------------------------------------------------------------
(* app.js: GET /api/stats *)

\* AVG over a DECIMAL(10,2) column is a decimal with six places
AvgScale == 1000000

\* LIMIT 5 of the recent employees
RecentLimit == 5

RECURSIVE SumSalary(_, _)
SumSalary(emps, ids) ==
    IF ids = {} THEN 0
    ELSE LET e == CHOOSE x \in ids : TRUE
         IN  emps[e].salary + SumSalary(emps, ids \ {e})

\* status = 'active'
ActiveIds(emps) == {e \in DOMAIN emps : emps[e].status = "active"}

\* SELECT AVG(salary) ... WHERE status = 'active', in millionths: NULL over
\* no row, else the quotient rounded half up at the sixth place
AvgSalary(emps) ==
    LET ids == ActiveIds(emps)
        n == Cardinality(ids)
    IN  IF n = 0 THEN NULL
        ELSE Some((2 * AvgScale * SumSalary(emps, ids) + n) \div (2 * n))

\* MathRound by Math.floor (a mutant)
MathRoundDown(average) ==
    IF average = NULL THEN 0 ELSE average[1] \div AvgScale

\* Math.round(average || 0): null is 0, the decimal is read as a number and
\* rounded to the integer nearest, halves upwards
MathRound(average) ==
    IF average = NULL THEN 0
    ELSE (2 * average[1] + AvgScale) \div (2 * AvgScale)

\* COUNT(e.id) of the employees of department d
DeptCount(emps, d) ==
    Cardinality({e \in DOMAIN emps : emps[e].department_id = Some(d)})

\* SELECT COUNT(*) as count FROM employees
StatsTotal(s) ==
    /\ pc[s] = "stats_total"
    /\ UNCHANGED <<store, req, started, runtime>>
    /\ Sent(s, "SELECT COUNT employees")
    /\ loc' = [loc EXCEPT ![s] =
                [total |-> Cardinality(DOMAIN employees)] @@ @]
    /\ Goto(s, "stats_active")

\* SELECT COUNT(*) as count FROM employees WHERE status = 'active'
StatsActive(s) ==
    /\ pc[s] = "stats_active"
    /\ UNCHANGED <<store, req, started, runtime>>
    /\ Sent(s, "SELECT COUNT active employees")
    /\ loc' = [loc EXCEPT ![s] =
                [active |-> Cardinality(ActiveIds(employees))] @@ @]
    /\ Goto(s, "stats_depts")

\* SELECT d.name, COUNT(e.id) ... GROUP BY d.id, d.name ORDER BY count DESC
StatsDepartments(s) ==
    /\ pc[s] = "stats_depts"
    /\ UNCHANGED <<store, req, started, runtime>>
    /\ Sent(s, "SELECT departments")
    /\ \E o \in OrdersOf(DOMAIN departments,
                    [x \in DOMAIN departments, y \in DOMAIN departments |->
                        DeptCount(employees, x) >= DeptCount(employees, y)]) :
        loc' = [loc EXCEPT ![s] =
                [breakdown |-> [i \in 1..Len(o) |->
                    [department |-> departments[o[i]].name,
                     count |-> DeptCount(employees, o[i])]]] @@ @]
    /\ Goto(s, "stats_avg")

\* SELECT AVG(salary) as average FROM employees WHERE status = 'active'
StatsAverage(s) ==
    /\ pc[s] = "stats_avg"
    /\ UNCHANGED <<store, req, started, runtime>>
    /\ Sent(s, "SELECT AVG employees")
    /\ loc' = [loc EXCEPT ![s] = [average |-> AvgSalary(employees)] @@ @]
    /\ Goto(s, "stats_recent")

\* SELECT e.*, d.name ... ORDER BY e.created_at DESC LIMIT 5, then the response
StatsRecent(s) ==
    /\ pc[s] = "stats_recent"
    /\ UNCHANGED <<store, req, loc, started, runtime>>
    /\ Sent(s, "SELECT employees")
    /\ \E o \in SortedOrders(employees, departments, DOMAIN employees,
                             [col |-> "created_at", dir |-> DESC]) :
        Reply(s, Resp(200, "",
            [totalEmployees |-> loc[s].total,
             activeEmployees |-> loc[s].active,
             averageSalary |-> MathRound(loc[s].average),
             departmentBreakdown |-> loc[s].breakdown,
             recentEmployees |->
                LimitOffset([i \in 1..Len(o) |->
                                LET j == Joined(employees, departments, o[i])
                                IN  [id |-> j.id, row |-> j.row,
                                     department_name |-> j.department_name]],
                            RecentLimit, 0)]))

\* the requests that change the employees table while the statistics are read
StatsMutations ==
    {Request("EmpPost", <<>>, Body(E3, Mail("c"), Some(2), "active", 40)),
     Request("EmpPost", <<>>, Body(E3, Mail("c"), NULL, "inactive", 40)),
     Request("EmpPut", <<"1">>, Body(E1, Mail("a"), Some(1), "active", 55)),
     Request("EmpPut", <<"1">>, Body(E1, Mail("a"), Some(2), "inactive", 60)),
     Request("EmpDelete", <<"1">>, <<>>),
     Request("EmpBulkDelete", <<>>,
             [ids |-> <<[t |-> "num", tenths |-> 10],
                        [t |-> "num", tenths |-> 20]>>])}

\* One GET /api/stats arrives, in slot 1, and the requests that change the
\* table arrive in slot 2
StartStats(s) ==
    /\ IF s = 1 THEN pc[s] = "idle" ELSE Free(s)
    /\ started < MaxRequests
    /\ started' = started + 1
    /\ \E r \in IF s = 1 THEN {Request("Stats", <<>>, <<>>)} ELSE StatsMutations :
        /\ req' = [req EXCEPT ![s] = r]
        /\ pc' = [pc EXCEPT ![s] =
                    IF r.kind = "Stats" THEN "stats_total" ELSE Entry(r.kind)]
    /\ loc' = [loc EXCEPT ![s] = NoLoc]
    /\ res' = [res EXCEPT ![s] = NoResp]
    /\ log' = [log EXCEPT ![s] = <<>>]
    /\ UNCHANGED <<store, runtime>>

NextStats ==
    \E s \in Slots :
        \/ StartStats(s)
        \/ StatsTotal(s) \/ StatsActive(s) \/ StatsDepartments(s)
        \/ StatsAverage(s) \/ StatsRecent(s)
        \/ EmpPostValidate(s) \/ EmpPostCode(s) \/ EmpPostEmail(s)
        \/ EmpPostDept(s) \/ EmpPostInsert(s) \/ EmpPostFetch(s)
        \/ EmpPutValidate(s) \/ EmpPutExists(s) \/ EmpPutCode(s)
        \/ EmpPutEmail(s) \/ EmpPutDept(s) \/ EmpPutUpdate(s) \/ EmpPutFetch(s)
        \/ EmpDeleteExists(s) \/ EmpDeleteDelete(s) \/ EmpBulkDelete(s)

SpecStats == Init /\ [][NextStats]_vars

----------------------------------------------------------------------------
(* dbconfig: getPool, initializeDatabase, createTables; app.js: startup and
   SIGINT.  The callers of getPool are processes of their own: positions,
   locals and statements are kept in pc, loc and log as for the requests. *)

\* bound: how many times the process is started on the same store
MaxStartups == 2

\* the three activities of the process outside the requests: the startup
\* call getPool(), the startup call testConnection(), the SIGINT handler
Callers == {"getPool", "testConnection", "SIGINT"}

MKT == <<"m", "k", "t">>
OPS == <<"o", "p", "s">>

\* INSERT INTO departments (name, description) VALUES ... (five rows)
SeedDepartments ==
    <<[name |-> HR, description |-> Desc], [name |-> IT, description |-> Desc],
      [name |-> FIN, description |-> Desc], [name |-> MKT, description |-> Desc],
      [name |-> OPS, description |-> Desc]>>

\* INSERT INTO employees (...) VALUES ... (five rows, departments 1 to 5)
SeedEmployees ==
    <<Body(E1, Mail("a"), Some(1), "active", 75),
      Body(E2, Mail("b"), Some(2), "active", 85),
      Body(E3, Mail("c"), Some(3), "active", 65),
      Body(<<"e", "4">>, Mail("d"), Some(4), "active", 60),
      Body(<<"e", "5">>, Mail("e"), Some(5), "active", 80)>>

\* rows appended to a table under the ids next, next + 1, ...
Inserted(table, next, rows) ==
    [i \in DOMAIN table \cup next..(next + Len(rows) - 1) |->
        IF i \in DOMAIN table THEN table[i] ELSE rows[i - next + 1]]

\* the locals of a caller: the pool its initializeDatabase created, the pool
\* getPool returned to it, how its pool.end() settled
NoCall == [mine |-> 0, got |-> 0, ended |-> "", failed |-> FALSE]

\* the stores a process may be started on: an empty database, a database
\* provisioned by this code, and one with an employees table of the old
\* structure (a department column, no department_id, capitalized statuses)
EmptyStore ==
    /\ schema = [departments |-> FALSE, employees |-> "absent",
                 department_id |-> FALSE]
    /\ departments = <<>>
    /\ employees = <<>>
    /\ nextDeptId = 1
    /\ nextEmpId = 1

ProvisionedStore ==
    /\ schema = [departments |-> TRUE, employees |-> "new",
                 department_id |-> TRUE]
    /\ departments = Inserted(<<>>, 1, SeedDepartments)
    /\ employees = Inserted(<<>>, 1, [i \in 1..5 |-> EmpRow(SeedEmployees[i], 0)])
    /\ nextDeptId = 6
    /\ nextEmpId = 6

LegacyStore ==
    /\ schema = [departments |-> TRUE, employees |-> "legacy",
                 department_id |-> FALSE]
    /\ departments = Inserted(<<>>, 1, SeedDepartments)
    /\ employees =
         (1 :> EmpRow(Body(E1, Mail("a"), NULL, "Active", 75), 0))
         @@ (2 :> EmpRow(Body(E2, Mail("b"), NULL, "On Leave", 85), 0))
    /\ nextDeptId = 6
    /\ nextEmpId = 3

\* before the first start of the process
InitBoot ==
    /\ EmptyStore \/ ProvisionedStore \/ LegacyStore
    /\ clock = 0
    /\ pc = [c \in Callers |-> "idle"]
    /\ req = [c \in Callers |-> Request(c, <<>>, <<>>)]
    /\ loc = [c \in Callers |-> NoCall]
    /\ res = [c \in Callers |-> NoResp]
    /\ log = [c \in Callers |-> <<>>]
    /\ started = 0
    /\ pool = 0
    /\ pools = <<>>
    /\ inits = 0
    /\ exited = FALSE
    /\ startups = 0

\* where a caller goes on when its getPool() has returned
After(c) ==
    CASE c = "getPool" -> "done"
      [] c = "testConnection" -> "tc_acquire"
      [] c = "SIGINT" -> "sig_end"

Step(c, label) == pc' = [pc EXCEPT ![c] = label]

\* an error thrown inside initializeDatabase reaches the catch of getPool
Throw(c) ==
    /\ pc' = [pc EXCEPT ![c] = "gp_catch"]
    /\ loc' = [loc EXCEPT ![c].failed = TRUE]

\* node starts app.js: getPool() and testConnection() are called one after
\* the other; each finds pool undefined, calls initializeDatabase and waits
\* for mysql.createConnection
StartProcess(c) ==
    /\ c = "getPool"
    /\ startups = 0 \/ exited
    /\ startups < MaxStartups
    /\ startups' = startups + 1
    /\ exited' = FALSE
    /\ pool' = 0
    /\ pools' = <<>>
    /\ inits' = 2
    /\ pc' = [k \in Callers |-> IF k = "SIGINT" THEN "idle" ELSE "init_connect"]
    /\ loc' = [k \in Callers |-> NoCall]
    /\ res' = [k \in Callers |-> NoResp]
    /\ UNCHANGED <<store, schema, req, log, started>>

\* process.on("SIGINT"): the handler calls getPool()
Sigint(c) ==
    /\ c = "SIGINT" /\ pc[c] = "idle"
    /\ startups > 0 /\ ~exited
    /\ IF pool # 0
       THEN /\ loc' = [loc EXCEPT ![c].got = pool]
            /\ Step(c, After(c))
            /\ UNCHANGED inits
       ELSE /\ inits' = inits + 1
            /\ Step(c, "init_connect")
            /\ UNCHANGED loc
    /\ UNCHANGED <<store, schema, req, res, log, started, pool, pools,
                   exited, startups>>

\* await mysql.createConnection({host, port, user, password})
InitConnect(c) ==
    /\ pc[c] = "init_connect" /\ ~exited
    /\ \E ok \in BOOLEAN :
        IF ok THEN Step(c, "init_end") /\ UNCHANGED loc ELSE Throw(c)
    /\ UNCHANGED <<store, req, res, log, started, runtime>>

\* await initConnection.end(); mysql.createPool(dbConfig); pool.getConnection()
InitEnd(c) ==
    /\ pc[c] = "init_end" /\ ~exited
    /\ pools' = Append(pools, "open")
    /\ loc' = [loc EXCEPT ![c].mine = Len(pools) + 1]
    /\ Step(c, "init_acquire")
    /\ UNCHANGED <<store, req, res, log, started, schema, pool, inits,
                   exited, startups>>

\* await pool.getConnection()
InitAcquire(c) ==
    /\ pc[c] = "init_acquire" /\ ~exited
    /\ \E ok \in BOOLEAN :
        IF ok THEN Step(c, "ct_show_departments") /\ UNCHANGED loc
        ELSE Throw(c)
    /\ UNCHANGED <<store, req, res, log, started, runtime>>

\* ShowDepartments that skips the check and always creates (a mutant)
ShowDepartmentsAlwaysCreate(c) ==
    /\ pc[c] = "ct_show_departments" /\ ~exited
    /\ Step(c, "ct_create_departments")
    /\ UNCHANGED <<store, req, log, loc, res, started, runtime>>

\* SHOW TABLES LIKE 'departments'
ShowDepartments(c) ==
    /\ pc[c] = "ct_show_departments" /\ ~exited
    /\ Step(c, IF schema.departments THEN "ct_show_employees"
               ELSE "ct_create_departments")
    /\ UNCHANGED <<store, req, log, loc, res, started, runtime>>

\* CREATE TABLE departments (...): an error when the table exists
CreateDepartments(c) ==
    /\ pc[c] = "ct_create_departments" /\ ~exited
    /\ IF schema.departments
       THEN /\ Throw(c)
            /\ UNCHANGED <<schema, departments, nextDeptId>>
       ELSE /\ schema' = [schema EXCEPT !.departments = TRUE]
            /\ departments' = <<>>
            /\ nextDeptId' = 1
            /\ Step(c, "ct_seed_departments")
            /\ UNCHANGED loc
    /\ UNCHANGED <<employees, nextEmpId, clock, req, log, res, started, pool,
                   pools, inits, exited, startups>>

\* INSERT INTO departments (name, description) VALUES ... (the sample rows)
InsertDepartments(c) ==
    /\ pc[c] = "ct_seed_departments" /\ ~exited
    /\ IF \E i \in 1..Len(SeedDepartments) :
            DupDeptName(departments, SeedDepartments[i].name, 0)
       THEN /\ Throw(c)
            /\ UNCHANGED <<departments, nextDeptId>>
       ELSE /\ departments' = Inserted(departments, nextDeptId, SeedDepartments)
            /\ nextDeptId' = nextDeptId + Len(SeedDepartments)
            /\ Step(c, "ct_show_employees")
            /\ UNCHANGED loc
    /\ UNCHANGED <<employees, nextEmpId, clock, req, log, res, started, runtime>>

\* SHOW TABLES LIKE 'employees'
ShowEmployees(c) ==
    /\ pc[c] = "ct_show_employees" /\ ~exited
    /\ Step(c, IF schema.employees = "absent" THEN "ct_create_employees"
               ELSE "ct_show_columns")
    /\ UNCHANGED <<store, req, log, loc, res, started, runtime>>

\* CREATE TABLE employees (...): an error when the table exists
CreateEmployees(c) ==
    /\ pc[c] = "ct_create_employees" /\ ~exited
    /\ IF schema.employees # "absent" \/ ~schema.departments
       THEN /\ Throw(c)
            /\ UNCHANGED <<schema, employees, nextEmpId>>
       ELSE /\ schema' = [schema EXCEPT !.employees = "new",
                                        !.department_id = TRUE]
            /\ employees' = <<>>
            /\ nextEmpId' = 1
            /\ Step(c, "ct_seed_employees")
            /\ UNCHANGED loc
    /\ UNCHANGED <<departments, nextDeptId, clock, req, log, res, started, pool,
                   pools, inits, exited, startups>>

\* INSERT INTO employees (...) VALUES ... (the sample rows)
InsertEmployees(c) ==
    /\ pc[c] = "ct_seed_employees" /\ ~exited
    /\ LET rows == [i \in 1..Len(SeedEmployees) |-> EmpRow(SeedEmployees[i], clock)]
       IN  IF \E i \in 1..Len(rows) :
                EmpWriteError(employees, departments, rows[i], 0) # ""
           THEN /\ Throw(c)
                /\ UNCHANGED <<employees, nextEmpId>>
           ELSE /\ employees' = Inserted(employees, nextEmpId, rows)
                /\ nextEmpId' = nextEmpId + Len(rows)
                /\ Step(c, "init_return")
                /\ UNCHANGED loc
    /\ UNCHANGED <<departments, nextDeptId, clock, req, log, res, started, runtime>>

\* SHOW COLUMNS FROM employees LIKE 'department': the old structure has it
ShowColumns(c) ==
    /\ pc[c] = "ct_show_columns" /\ ~exited
    /\ Step(c, IF schema.employees = "legacy" THEN "ct_alter_column"
               ELSE "init_return")
    /\ UNCHANGED <<store, req, log, loc, res, started, runtime>>

\* ALTER TABLE employees ADD COLUMN department_id ...; its error (the column
\* exists) is caught and logged
AlterAddColumn(c) ==
    /\ pc[c] = "ct_alter_column" /\ ~exited
    /\ schema' = [schema EXCEPT !.department_id = TRUE]
    /\ Step(c, "ct_alter_status")
    /\ UNCHANGED <<store, req, log, loc, res, started, pool, pools, inits,
                   exited, startups>>

\* a status the new ENUM('active', 'inactive') holds, in any letter case
InEnum(status) == status \in {"active", "inactive", "Active", "Inactive"}

EnumValue(status) ==
    CASE status = "Active" -> "active"
      [] status = "Inactive" -> "inactive"
      [] OTHER -> status

\* ALTER TABLE employees MODIFY COLUMN status ENUM('active', 'inactive'):
\* with a status outside the ENUM the statement fails (strict mode; the error
\* is caught and logged) or blanks that status; otherwise it converts
AlterStatus(c) ==
    /\ pc[c] = "ct_alter_status" /\ ~exited
    /\ \/ /\ \E e \in DOMAIN employees : ~InEnum(employees[e].status)
          /\ UNCHANGED employees
       \/ employees' = [e \in DOMAIN employees |->
                [employees[e] EXCEPT !.status =
                    IF InEnum(@) THEN EnumValue(@) ELSE ""]]
    /\ Step(c, "ct_update_active")
    /\ UNCHANGED <<departments, nextDeptId, nextEmpId, clock, req, log, loc, res,
                   started, runtime>>

\* UPDATE employees SET status = 'active' WHERE status = 'Active'
UpdateActive(c) ==
    /\ pc[c] = "ct_update_active" /\ ~exited
    /\ employees' = [e \in DOMAIN employees |->
            [employees[e] EXCEPT !.status =
                IF @ \in {"Active", "active"} THEN "active" ELSE @]]
    /\ Step(c, "ct_update_inactive")
    /\ UNCHANGED <<departments, nextDeptId, nextEmpId, clock, req, log, loc, res,
                   started, runtime>>

\* UPDATE employees SET status = 'inactive' WHERE status IN ('Inactive', 'On Leave')
UpdateInactive(c) ==
    /\ pc[c] = "ct_update_inactive" /\ ~exited
    /\ employees' = [e \in DOMAIN employees |->
            [employees[e] EXCEPT !.status =
                IF @ \in {"Inactive", "inactive", "On Leave"}
                THEN "inactive" ELSE @]]
    /\ Step(c, "init_return")
    /\ UNCHANGED <<departments, nextDeptId, nextEmpId, clock, req, log, loc, res,
                   started, runtime>>

\* connection.release(); return pool; and in getPool: pool = <that pool>
InitReturn(c) ==
    /\ pc[c] = "init_return" /\ ~exited
    /\ pool' = loc[c].mine
    /\ loc' = [loc EXCEPT ![c].got = loc[c].mine]
    /\ Step(c, After(c))
    /\ UNCHANGED <<store, req, res, log, started, schema, pools, inits,
                   exited, startups>>

\* catch (error) in getPool: pool = mysql.createPool(dbConfig)
GetPoolCatch(c) ==
    /\ pc[c] = "gp_catch" /\ ~exited
    /\ pools' = Append(pools, "open")
    /\ pool' = Len(pools) + 1
    /\ loc' = [loc EXCEPT ![c].got = Len(pools) + 1]
    /\ Step(c, After(c))
    /\ UNCHANGED <<store, req, res, log, started, schema, inits, exited,
                   startups>>

\* testConnection: await pool.getConnection(), release, return true; false
\* when it throws, as it does on a pool that is closing or closed
TestAcquire(c) ==
    /\ pc[c] = "tc_acquire" /\ ~exited
    /\ \E ok \in BOOLEAN :
        /\ ok => pools[loc[c].got] = "open"
        /\ res' = [res EXCEPT ![c].data = <<ok>>]
    /\ Step(c, "done")
    /\ UNCHANGED <<store, req, loc, log, started, runtime>>

\* SigintEnd without await: pool.end() is called and process.exit(0) follows
\* at once (a mutant)
SigintEndNoAwait(c) ==
    /\ pc[c] = "sig_end" /\ ~exited
    /\ exited' = TRUE
    /\ pc' = [k \in Callers |-> "exited"]
    /\ loc' = [k \in Callers |-> NoCall]
    /\ res' = [k \in Callers |-> NoResp]
    /\ pool' = 0
    /\ pools' = <<>>
    /\ inits' = 0
    /\ UNCHANGED <<store, req, log, started, schema, startups>>

\* the SIGINT handler calls pool.end() and awaits it
SigintEnd(c) ==
    /\ pc[c] = "sig_end" /\ ~exited
    /\ pools' = [pools EXCEPT ![loc[c].got] = "ending"]
    /\ Step(c, "sig_ending")
    /\ UNCHANGED <<store, req, loc, res, log, started, schema, pool, inits,
                   exited, startups>>

\* pool.end() settles: resolved, the pool is closed, or rejected (caught)
SigintEnded(c) ==
    /\ pc[c] = "sig_ending" /\ ~exited
    /\ \E how \in {"resolved", "rejected"} :
        /\ loc' = [loc EXCEPT ![c].ended = how]
        /\ pools' = [pools EXCEPT ![loc[c].got] =
                        IF how = "resolved" THEN "closed" ELSE @]
    /\ Step(c, "sig_exit")
    /\ UNCHANGED <<store, req, res, log, started, schema, pool, inits,
                   exited, startups>>

\* process.exit(0): the process and what it held in memory are gone
SigintExit(c) ==
    /\ pc[c] = "sig_exit" /\ ~exited
    /\ exited' = TRUE
    /\ pc' = [k \in Callers |-> "exited"]
    /\ loc' = [k \in Callers |-> NoCall]
    /\ res' = [k \in Callers |-> NoResp]
    /\ pool' = 0
    /\ pools' = <<>>
    /\ inits' = 0
    /\ UNCHANGED <<store, req, log, started, schema, startups>>

NextBoot ==
    \E c \in Callers :
        \/ StartProcess(c) \/ Sigint(c)
        \/ InitConnect(c) \/ InitEnd(c) \/ InitAcquire(c)
        \/ ShowDepartments(c) \/ CreateDepartments(c) \/ InsertDepartments(c)
        \/ ShowEmployees(c) \/ CreateEmployees(c) \/ InsertEmployees(c)
        \/ ShowColumns(c) \/ AlterAddColumn(c) \/ AlterStatus(c)
        \/ UpdateActive(c) \/ UpdateInactive(c)
        \/ InitReturn(c) \/ GetPoolCatch(c) \/ TestAcquire(c)
        \/ SigintEnd(c) \/ SigintEnded(c) \/ SigintExit(c)

SpecBoot == InitBoot /\ [][NextBoot]_vars

\* The process has just been started on a provisioned store: getPool() and
\* testConnection() wait for their connections
InitShutdown ==
    /\ ProvisionedStore
    /\ clock = 0
    /\ pc = [c \in Callers |-> IF c = "SIGINT" THEN "idle" ELSE "init_connect"]
    /\ req = [c \in Callers |-> Request(c, <<>>, <<>>)]
    /\ loc = [c \in Callers |-> NoCall]
    /\ res = [c \in Callers |-> NoResp]
    /\ log = [c \in Callers |-> <<>>]
    /\ started = 0
    /\ pool = 0
    /\ pools = <<>>
    /\ inits = 2
    /\ exited = FALSE
    /\ startups = 1

\* the steps of caller c that the event loop takes by itself
Proceed(c) ==
    \/ InitConnect(c) \/ InitEnd(c) \/ InitAcquire(c)
    \/ ShowDepartments(c) \/ ShowEmployees(c) \/ ShowColumns(c)
    \/ InitReturn(c) \/ GetPoolCatch(c) \/ TestAcquire(c)
    \/ SigintEnd(c) \/ SigintEnded(c) \/ SigintExit(c)

NextShutdown ==
    \E c \in Callers :
        \/ Sigint(c)
        \/ InitConnect(c) \/ InitEnd(c) \/ InitAcquire(c)
        \/ ShowDepartments(c) \/ ShowEmployees(c) \/ ShowColumns(c)
        \/ InitReturn(c) \/ GetPoolCatch(c) \/ TestAcquire(c)
        \/ SigintEnd(c) \/ SigintEnded(c) \/ SigintExit(c)

\* One life of the process, from its start to its exit on SIGINT.  Every
\* pending operation settles: the driver answers or times out.
SpecShutdown ==
    /\ InitShutdown /\ [][NextShutdown]_vars
    /\ \A c \in Callers : WF_vars(Proceed(c))

----------------------------------------------------------------------------
(* Properties *)

Range(q) == {q[i] : i \in 1..Len(q)}

\* request s takes the step at label in this transition
Moves(s, label) == pc[s] = label /\ pc'[s] # label

\* this transition sends a statement of request s to the store
Sends(s, stmt) == log'[s] = Append(log[s], stmt)

\* this transition answers request s with HTTP 400 and the given reason
Rejects(s, why) ==
    /\ pc'[s] = "done"
    /\ res'[s].status = 400
    /\ res'[s].error = why

\* request s is answered
Answered(s, kind, status) ==
    /\ req[s].kind = kind
    /\ pc[s] = "done"
    /\ res[s].status = status

\* C1: a POST /api/departments whose name is the name of an existing
\* department is answered 400 'Department already exists', sends no INSERT
\* and leaves the departments table as it is.
C1_DuplicateDepartmentRejected ==
    [][\A s \in Slots :
        (/\ Moves(s, "dpost_check")
         /\ req[s].body # <<>>
         /\ "name" \in DOMAIN req[s].body
         /\ req[s].body.name # <<>>
         /\ \E d \in DOMAIN departments : departments[d].name = req[s].body.name)
        => /\ Rejects(s, "Department already exists")
           /\ departments' = departments
           /\ nextDeptId' = nextDeptId
           /\ "INSERT departments" \notin Range(log'[s])]_vars

C1_Witness ==
    \E s \in Slots :
        /\ Answered(s, "DeptPost", 400)
        /\ res[s].error = "Department already exists"
        /\ \E d \in DOMAIN departments : departments[d].name = req[s].body.name
        /\ log[s] = <<"SELECT departments">>

\* C2: a DELETE /api/departments/:id whose department is referenced by an
\* employee when the handler counts the references is answered 400, sends no
\* DELETE and leaves both tables as they are.
C2_ReferencedDepartmentKept ==
    [][\A s \in Slots :
        (/\ Moves(s, "ddel_count")
         /\ \E e \in DOMAIN employees :
                employees[e].department_id = <<SqlInt(req[s].id)>>)
        => /\ Rejects(s, "Cannot delete department that is assigned to employees")
           /\ departments' = departments
           /\ employees' = employees
           /\ "DELETE departments" \notin Range(log'[s])]_vars

C2_Witness ==
    \E s \in Slots :
        /\ Answered(s, "DeptDelete", 400)
        /\ SqlInt(req[s].id) \in DOMAIN departments
        /\ \E e \in DOMAIN employees :
                employees[e].department_id = <<SqlInt(req[s].id)>>
        /\ log[s] = <<"SELECT departments", "SELECT employees">>

\* C3: under every interleaving, a department row is removed only if no
\* employee references it at the moment the row is removed.
C3_RemovedOnlyIfUnreferenced ==
    [][\A d \in DOMAIN departments :
        d \notin DOMAIN departments'
        => \A e \in DOMAIN employees : employees[e].department_id # <<d>>]_vars

\* C4: no two employee rows share an employee code, and no two share an email.
C4_CodeAndEmailUnique ==
    \A e1, e2 \in DOMAIN employees :
        e1 # e2 => /\ employees[e1].employee_id # employees[e2].employee_id
                   /\ employees[e1].email # employees[e2].email

\* two creates with the same code raced and the store refused the second
C4_Witness ==
    \E s, t \in Slots :
        /\ Answered(s, "EmpPost", 400)
        /\ res[s].error = "Duplicate entry detected"
        /\ req[t].kind = "EmpPost"
        /\ req[t].body.employeeId = req[s].body.employeeId
        /\ loc[t].insertId \in DOMAIN employees

\* C5: every employee's department reference is NULL or the id of a
\* department row that exists.
C5_DepartmentReferenceValid ==
    \A e \in DOMAIN employees :
        \/ employees[e].department_id = NULL
        \/ employees[e].department_id[1] \in DOMAIN departments

\* an employee was created in a department that a racing delete then removed
C5_Witness ==
    \E s, t \in Slots :
        /\ req[s].kind = "EmpPost"
        /\ loc[s].insertId \in DOMAIN employees
        /\ req[s].body.departmentId # NULL
        /\ employees[loc[s].insertId].department_id = NULL
        /\ Answered(t, "DeptDelete", 200)
        /\ req[s].body.departmentId[1] \notin DOMAIN departments

\* C6: a create whose INSERT the store refuses for a duplicate key (the loser
\* of a race: its pre-checks passed) is answered 400 'Duplicate entry detected'.
C6_RaceLoserGetsDuplicateEntry ==
    [][\A s \in Slots :
        (\/ /\ pc[s] = "dpost_insert"
            /\ Sends(s, "INSERT departments")
            /\ \E d \in DOMAIN departments :
                    departments[d].name = req[s].body.name
         \/ /\ pc[s] = "epost_insert"
            /\ Sends(s, "INSERT employees")
            /\ \E e \in DOMAIN employees :
                    \/ employees[e].employee_id = req[s].body.employeeId
                    \/ employees[e].email = req[s].body.email)
        => /\ Rejects(s, "Duplicate entry detected")
           /\ departments' = departments
           /\ employees' = employees]_vars

\* C7: no UPDATE of a department reaches the store with a name that a
\* different department uses: the application rejects the request before.
C7_DepartmentUpdatePrechecked ==
    [][\A s \in Slots :
        (pc[s] = "dput_update" /\ Sends(s, "UPDATE departments"))
        => ~\E d \in DOMAIN departments :
                /\ d # SqlInt(req[s].id)
                /\ departments[d].name = req[s].body.name]_vars

\* what makes an employee body invalid: a required field missing, a salary
\* or department id that is not positive, an email without @, a status
\* outside the enumeration
C8_Invalid(b) ==
    \/ {"employeeId", "firstName", "lastName", "email", "position", "salary",
        "hireDate"} \ DOMAIN b # {}
    \/ b.salary <= 0
    \/ \A i \in 1..Len(b.email) : b.email[i] # "@"
    \/ ("departmentId" \in DOMAIN b /\ b.departmentId # NULL
            /\ b.departmentId[1] <= 0)
    \/ ("status" \in DOMAIN b /\ b.status \notin {"active", "inactive"})

\* the pre-checks POST /api/employees must have completed before its INSERT
C8_ChecksBeforeInsert(b) ==
    <<"SELECT employees.employee_id", "SELECT employees.email">>
    \o (IF "departmentId" \in DOMAIN b /\ b.departmentId # NULL
        THEN <<"SELECT departments">> ELSE <<>>)

C8_NoInsert(s) ==
    /\ employees' = employees
    /\ nextEmpId' = nextEmpId
    /\ "INSERT employees" \notin Range(log'[s])

\* C8: POST /api/employees sends its INSERT only after the employee-code
\* check, the email check and (with a department id) the department check;
\* an invalid body or a failed check is answered 400 with its reason, sends
\* no INSERT and leaves the employees table as it is.
C8_CreateChecksPrecedeInsert ==
    [][\A s \in Slots :
        LET b == req[s].body IN
        /\ (Moves(s, "epost_validate") /\ C8_Invalid(b))
            => /\ Rejects(s, "Validation failed")
               /\ C8_NoInsert(s)
               /\ log'[s] = <<>>
        /\ (/\ Moves(s, "epost_code")
            /\ \E e \in DOMAIN employees : employees[e].employee_id = b.employeeId)
            => Rejects(s, "Employee ID already exists") /\ C8_NoInsert(s)
        /\ (/\ Moves(s, "epost_email")
            /\ \E e \in DOMAIN employees : employees[e].email = b.email)
            => Rejects(s, "Email already exists") /\ C8_NoInsert(s)
        /\ (/\ Moves(s, "epost_dept")
            /\ b.departmentId[1] \notin DOMAIN departments)
            => Rejects(s, "Department not found") /\ C8_NoInsert(s)
        /\ (req[s].kind = "EmpPost" /\ Sends(s, "INSERT employees"))
            => log[s] = C8_ChecksBeforeInsert(b)
        /\ (req[s].kind = "EmpPost" /\ pc'[s] # pc[s] /\ pc[s] # "epost_insert")
            => employees' = employees /\ ~Sends(s, "INSERT employees")]_vars

\* one create was refused for its department, another for its body
C8_Witness ==
    \E s, t \in Slots :
        /\ Answered(s, "EmpPost", 400)
        /\ res[s].error = "Department not found"
        /\ log[s] = <<"SELECT employees.employee_id", "SELECT employees.email",
                      "SELECT departments">>
        /\ Answered(t, "EmpPost", 400)
        /\ res[t].error = "Validation failed"
        /\ log[t] = <<>>
        /\ nextEmpId = 3

\* C9: PUT /api/employees/:id of an id without a row is answered 404 and
\* changes nothing; its uniqueness checks leave the target row out, so an
\* update that keeps the row's own code and email passes both checks and the
\* store accepts it, while one that takes the code or email of a different
\* employee is answered 400 and changes nothing.
C9_UpdateExcludesOwnRecord ==
    [][\A s \in Slots :
        LET b == req[s].body
            id == ToNum(req[s].id)
            own == /\ id \in DOMAIN employees
                   /\ employees[id].employee_id = b.employeeId
                   /\ employees[id].email = b.email
        IN
        /\ (Moves(s, "eput_exists") /\ id \notin DOMAIN employees)
            => /\ pc'[s] = "done" /\ res'[s].status = 404
               /\ employees' = employees /\ departments' = departments
        /\ (/\ Moves(s, "eput_code")
            /\ \E e \in DOMAIN employees \ {id} :
                    employees[e].employee_id = b.employeeId)
            => Rejects(s, "Employee ID already exists") /\ employees' = employees
        /\ (/\ Moves(s, "eput_email")
            /\ \E e \in DOMAIN employees \ {id} : employees[e].email = b.email)
            => Rejects(s, "Email already exists") /\ employees' = employees
        /\ (Moves(s, "eput_code") /\ own) => pc'[s] = "eput_email"
        /\ (Moves(s, "eput_email") /\ own)
            => pc'[s] \in {"eput_dept", "eput_update"}
        /\ (/\ Moves(s, "eput_update") /\ own
            /\ Sends(s, "UPDATE employees")
            /\ (b.departmentId = NULL \/ b.departmentId[1] \in DOMAIN departments))
            => /\ pc'[s] = "eput_fetch"
               /\ employees'[id].employee_id = b.employeeId
               /\ employees'[id].email = b.email
               /\ employees'[id].salary = b.salary
               /\ employees'[id].status = b.status
        /\ Moves(s, "eput_fetch") => res'[s].status = 200]_vars

\* an update that kept the row's code and email went through
C9_Witness ==
    \E s \in Slots :
        /\ Answered(s, "EmpPut", 200)
        /\ res[s].data # <<>>
        /\ res[s].data[1].row.employee_id = E1
        /\ res[s].data[1].row.email = Mail("a")
        /\ res[s].data[1].row.status = "inactive"
        /\ res[s].data[1].row.salary = 60
        /\ \E t \in Slots :
            /\ Answered(t, "EmpPut", 400)
            /\ res[t].error = "Employee ID already exists"

\* employee e passes the search, department and status filters of query q
C10_Matches(e, q) ==
    LET r == employees[e]
        deptName == IF r.department_id # NULL
                       /\ r.department_id[1] \in DOMAIN departments
                    THEN {departments[r.department_id[1]].name} ELSE {}
    IN  /\ "search" \in DOMAIN q =>
            \E t \in {r.employee_id, r.first_name, r.last_name, r.email,
                      r.position} \cup deptName : Contains(t, q.search)
        /\ "departmentId" \in DOMAIN q =>
            r.department_id = <<ToNum(q.departmentId)>>
        /\ "status" \in DOMAIN q => r.status = q.status

C10_Page(q) == IF "page" \in DOMAIN q THEN ToNum(q.page) ELSE 1

C10_Limit(q) == IF "limit" \in DOMAIN q THEN ToNum(q.limit) ELSE 10

\* C10: GET /api/employees with page p >= 1 and limit n >= 1 returns at most
\* n rows, the rows at offset (p-1)*n of the filtered, sorted result;
\* pagination.total is the number of employees that pass the filters,
\* whatever p and n are, pagination.pages is ceil(total / limit), and the
\* count query filters exactly as the data query does.
C10_ListPagination ==
    [][\A s \in Slots :
        req[s].kind = "EmpList" =>
        LET q == req[s].query
            p == C10_Page(q)
            n == C10_Limit(q)
            M == {e \in DOMAIN employees : C10_Matches(e, q)}
            off == (p - 1) * n
            last == IF off + n < Cardinality(M) THEN off + n ELSE Cardinality(M)
        IN
        /\ (Moves(s, "elist_data") /\ p >= 1 /\ n >= 1)
            => /\ pc'[s] = "elist_count"
               /\ Len(loc'[s].existing) <= n
               /\ \E o \in SortedOrders(employees, departments, M, OrderBy(q)) :
                    /\ Len(loc'[s].existing) = (IF last > off THEN last - off ELSE 0)
                    /\ \A i \in 1..Len(loc'[s].existing) :
                        /\ loc'[s].existing[i].id = o[off + i]
                        /\ loc'[s].existing[i].row = employees[o[off + i]]
               /\ \A e \in DOMAIN employees :
                    /\ DataWhere(employees, departments, e, q) = (e \in M)
                    /\ CountWhere(employees, departments, e, q) = (e \in M)
        /\ Moves(s, "elist_count")
            => /\ pc'[s] = "done"
               /\ res'[s].status = 200
               /\ res'[s].data = loc[s].existing
               /\ res'[s].pagination.page = p
               /\ res'[s].pagination.limit = n
               /\ res'[s].pagination.total = Cardinality(M)
               /\ n >= 1 =>
                    /\ res'[s].pagination.pages # NULL
                    /\ res'[s].pagination.pages[1] * n >= Cardinality(M)
                    /\ (res'[s].pagination.pages[1] - 1) * n < Cardinality(M)]_vars

\* page 2 of the active employees, one row a page: three of the four match
C10_Witness ==
    \E s \in Slots :
        /\ Answered(s, "EmpList", 200)
        /\ DOMAIN req[s].query = {"status", "page", "limit"}
        /\ req[s].query.page = <<"2">>
        /\ req[s].query.limit = <<"1">>
        /\ Len(res[s].data) = 1
        /\ res[s].data[1].row.status = "active"
        /\ res[s].pagination.total = 3
        /\ res[s].pagination.pages = <<3>>
        /\ Cardinality(DOMAIN employees) = 4

\* text t is word written in any letter case (word is in lower case)
C11_AnyCase(t, word) ==
    /\ Len(t) = Len(word)
    /\ \A i \in 1..Len(t) :
        \/ t[i] = word[i]
        \/ \E k \in 1..26 : Lower[k] = word[i] /\ Upper[k] = t[i]

\* rows is in ascending (up = TRUE) or descending order of column col
C11_Ordered(rows, col, up) ==
    \A i \in 1..Len(rows) : \A j \in (i + 1)..Len(rows) :
        IF up THEN ~Before(rows[j], rows[i], col)
        ELSE ~Before(rows[i], rows[j], col)

\* C11: a GET /api/employees whose sortBy is not an allow-listed column does
\* not fail and returns the rows by creation time, descending; with an
\* allow-listed column and a sortOrder that is asc or desc in any letter case
\* the rows are ordered by that column in that direction.
C11_SortFallbackAndCase ==
    [][\A s \in Slots :
        (req[s].kind = "EmpList" /\ Moves(s, "elist_data")) =>
        LET q == req[s].query
            rows == loc'[s].existing
            allowed == {"id", "employee_id", "first_name", "last_name",
                        "department_name", "salary", "hire_date", "created_at"}
        IN
        /\ ("sortBy" \in DOMAIN q /\ q.sortBy \notin allowed)
            => /\ pc'[s] = "elist_count"
               /\ C11_Ordered(rows, "created_at", FALSE)
        /\ ("sortBy" \in DOMAIN q /\ q.sortBy \in allowed
                /\ "sortOrder" \in DOMAIN q)
            => /\ C11_AnyCase(q.sortOrder, <<"a", "s", "c">>)
                    => /\ pc'[s] = "elist_count"
                       /\ C11_Ordered(rows, q.sortBy, TRUE)
               /\ C11_AnyCase(q.sortOrder, <<"d", "e", "s", "c">>)
                    => /\ pc'[s] = "elist_count"
                       /\ C11_Ordered(rows, q.sortBy, FALSE)]_vars

\* answered: all five employees by salary, ascending, asked for as "asc";
\* the order differs from the order by creation time
C11_Witness ==
    \E s \in Slots :
        /\ Answered(s, "EmpList", 200)
        /\ DOMAIN req[s].query = {"sortBy", "sortOrder"}
        /\ req[s].query.sortBy = "salary"
        /\ req[s].query.sortOrder = <<"a", "s", "c">>
        /\ Len(res[s].data) = 5
        /\ res[s].data[1].row.salary = 30
        /\ res[s].data[5].row.salary = 70
        /\ ~C11_Ordered(res[s].data, "created_at", FALSE)

\* an element of ids that is a positive integer (a number or its digits)
C12_ValidIdentifier(x) ==
    IF x.t = "num" THEN x.tenths > 0 /\ x.tenths % 10 = 0
    ELSE x.s # <<>> /\ ~IsNaN(x.s) /\ ToNum(x.s) > 0

C12_Identifier(x) == IF x.t = "num" THEN x.tenths \div 10 ELSE ToNum(x.s)

\* C12: DELETE /api/employees with a list of identifiers deletes exactly the
\* employees whose id is one of the positive integers of the list, leaves the
\* other rows as they are and reports the number of rows removed as
\* deletedCount; a list without a positive integer is answered 400 and
\* deletes nothing.
C12_BulkDeleteExact ==
    [][\A s \in Slots :
        (req[s].kind = "EmpBulkDelete" /\ Moves(s, "ebulk")
            /\ "ids" \in DOMAIN req[s].body /\ req[s].body.ids # <<>>) =>
        LET ids == req[s].body.ids
            valid == {C12_Identifier(ids[i]) :
                        i \in {k \in 1..Len(ids) : C12_ValidIdentifier(ids[k])}}
        IN  IF valid = {}
            THEN /\ res'[s].status = 400
                 /\ employees' = employees
            ELSE /\ res'[s].status = 200
                 /\ DOMAIN employees' = DOMAIN employees \ valid
                 /\ \A e \in DOMAIN employees' : employees'[e] = employees[e]
                 /\ res'[s].count =
                        Cardinality(DOMAIN employees \ DOMAIN employees')]_vars

\* a returned record without its timestamp fields
C13_NoTimestamps(j) == [j EXCEPT !.row.created_at = 0]

\* C13: when a create has answered 201 with a record, the GET
\* /api/employees/:id that follows it with the id of that record answers 200
\* with the same record, timestamp fields aside.
C13_CreateThenGetRoundTrip ==
    [][\A s \in Slots :
        (/\ req[s].kind = "EmpGet" /\ Moves(s, "eget")
         /\ req[1].kind = "EmpPost" /\ pc[1] = "done" /\ res[1].status = 201
         /\ res[1].data # <<>>
         /\ req[s].id = ToStr(res[1].data[1].id))
        => /\ res'[s].status = 200
           /\ Len(res'[s].data) = 1
           /\ C13_NoTimestamps(res'[s].data[1]) = C13_NoTimestamps(res[1].data[1])
           /\ res'[s].data[1].row.employee_id = req[1].body.employeeId]_vars

\* an employee created in department 2 was read back with its department
C13_Witness ==
    \E s \in Slots :
        /\ Answered(s, "EmpGet", 200)
        /\ Answered(1, "EmpPost", 201)
        /\ req[s].id = <<"3">>
        /\ res[s].data = res[1].data
        /\ res[s].data[1].id = 3
        /\ res[s].data[1].department_name = Some(IT)

\* C14: the record a successful create returns carries, as department_name,
\* the name of the department whose id the request supplied as departmentId,
\* and no department_name when the request supplied none.
C14_ReturnedDepartmentName ==
    [][\A s \in Slots :
        (req[s].kind = "EmpPost" /\ Moves(s, "epost_fetch")
            /\ res'[s].status = 201 /\ res'[s].data # <<>>) =>
        LET b == req[s].body
            supplied == "departmentId" \in DOMAIN b /\ b.departmentId # NULL
        IN  IF supplied
            THEN /\ b.departmentId[1] \in DOMAIN departments
                 /\ res'[s].data[1].department_name =
                        <<departments[b.departmentId[1]].name>>
            ELSE res'[s].data[1].department_name = NULL]_vars

\* integer a is the number avg (in millionths; NULL is 0) rounded to the
\* nearest integer
C15_Nearest(a, avg) ==
    IF avg = NULL THEN a = 0
    ELSE /\ 2 * a * AvgScale - AvgScale <= 2 * avg[1]
         /\ 2 * avg[1] < 2 * a * AvgScale + AvgScale

\* integer a is the mean of the salaries of the active employees rounded to
\* the nearest integer, and 0 when there is none
C15_RoundedActiveMean(a, emps) ==
    LET act == {e \in DOMAIN emps : emps[e].status = "active"}
        n == Cardinality(act)
        sum == SumSalary(emps, act)
    IN  IF n = 0 THEN a = 0
        ELSE 2 * n * a - n <= 2 * sum /\ 2 * sum < 2 * n * a + n

\* C15: the averageSalary of GET /api/stats is the mean of salary over the
\* employees with status 'active' (as the AVG query finds them), rounded to
\* the nearest integer, and 0 when no employee is active; inactive employees
\* do not count.
C15_AverageSalary ==
    [][\A s \in Slots :
        req[s].kind = "Stats" =>
        /\ Moves(s, "stats_avg") =>
            \A a \in 0..100 :
                C15_Nearest(a, loc'[s].average)
                    <=> C15_RoundedActiveMean(a, employees)
        /\ Moves(s, "stats_recent") =>
            /\ res'[s].status = 200
            /\ res'[s].data.averageSalary \in 0..100
            /\ C15_Nearest(res'[s].data.averageSalary, loc[s].average)]_vars

\* answered with 63: employee 1 was updated to 55 and employee 2 earns 70,
\* the mean is 62.5
C15_Witness ==
    \E s \in Slots :
        /\ Answered(s, "Stats", 200)
        /\ res[s].data.averageSalary = 63
        /\ res[s].data.activeEmployees = 2
        /\ employees[1].salary = 55 /\ employees[2].salary = 70

\* answered with 0: no employee was active when the average was taken
C15_WitnessNone ==
    \E s \in Slots :
        /\ Answered(s, "Stats", 200)
        /\ res[s].data.averageSalary = 0
        /\ employees = <<>>

\* C19: a successful GET /api/stats response has activeEmployees less than or
\* equal to totalEmployees, also when employee creates, updates and deletes
\* run between its queries.
C19_ActiveAtMostTotal ==
    \A s \in Slots :
        (req[s].kind = "Stats" /\ pc[s] = "done" /\ res[s].status = 200)
            => res[s].data.activeEmployees <= res[s].data.totalEmployees

\* C20: a 201 of employee create and a 200 of employee update carry the
\* stored employee record in data, also when a delete of that employee runs
\* between the request's statements.
C20_SuccessCarriesRecord ==
    \A s \in Slots :
        (/\ pc[s] = "done"
         /\ \/ req[s].kind = "EmpPost" /\ res[s].status = 201
            \/ req[s].kind = "EmpPut" /\ res[s].status = 200)
        => /\ res[s].data # <<>>
           /\ res[s].data[1].row.employee_id = req[s].body.employeeId

\* both tables exist in the store
C16_TablesExist == schema.departments /\ schema.employees # "absent"

\* the positions of createTables at which it creates a table or inserts the
\* sample rows
C16_Creating ==
    {"ct_create_departments", "ct_seed_departments",
     "ct_create_employees", "ct_seed_employees"}

\* the positions of createTables at which it looks at the store or brings an
\* old employees table up to date
C16_Checking ==
    {"ct_show_departments", "ct_show_employees", "ct_show_columns",
     "ct_alter_column", "ct_alter_status", "ct_update_active",
     "ct_update_inactive"}

\* C16: schema provisioning on a store whose departments and employees tables
\* exist creates no table, inserts no sample row and does not fail; so once
\* the store is provisioned, further startups leave its tables and rows as
\* they are and the sample rows are never there twice.
C16_ProvisioningIdempotent ==
    [][/\ \A c \in Callers :
            (C16_TablesExist /\ pc[c] \in C16_Checking /\ pc'[c] # pc[c]
                /\ ~exited')
            => /\ pc'[c] \in C16_Checking \cup {"init_return"}
               /\ ~loc'[c].failed
               /\ schema'.departments = schema.departments
               /\ schema'.employees = schema.employees
               /\ DOMAIN departments' = DOMAIN departments
               /\ DOMAIN employees' = DOMAIN employees
       /\ (C16_TablesExist /\ \A c \in Callers : pc[c] \notin C16_Creating)
            => /\ \A c \in Callers : pc'[c] \notin C16_Creating
               /\ departments' = departments
               /\ DOMAIN employees' = DOMAIN employees
               /\ schema.employees = "new" => employees' = employees
       /\ Cardinality(DOMAIN departments') <= Len(SeedDepartments)
       /\ Cardinality(DOMAIN employees') <= Len(SeedEmployees)]_vars

\* the second startup on the store the first one provisioned from nothing:
\* initializeDatabase has returned its pool and the sample rows are there once
C16_Witness ==
    /\ startups = 2
    /\ pc["getPool"] = "done"
    /\ ~loc["getPool"].failed
    /\ loc["getPool"].mine # 0
    /\ pc["testConnection"] = "done"
    /\ ~loc["testConnection"].failed
    /\ departments = Inserted(<<>>, 1, SeedDepartments)
    /\ Cardinality(DOMAIN employees) = Len(SeedEmployees)
    /\ clock = 0

\* C17: on SIGINT the process exits only after the handler's pool.end() has
\* resolved or rejected, and once the handler runs the exit follows.
C17_ExitAfterPoolEnd ==
    /\ [][(exited' /\ ~exited) =>
            /\ pc["SIGINT"] = "sig_exit"
            /\ loc["SIGINT"].ended \in {"resolved", "rejected"}
            /\ loc["SIGINT"].got \in 1..Len(pools)
            /\ pools[loc["SIGINT"].got] \in {"closed", "ending"}]_vars
    /\ (pc["SIGINT"] \notin {"idle", "exited"} /\ ~exited) ~> exited

\* the handler is about to exit, its pool.end() resolved and the pool closed
C17_Witness ==
    /\ pc["SIGINT"] = "sig_exit"
    /\ loc["SIGINT"].ended = "resolved"
    /\ pools[loc["SIGINT"].got] = "closed"
    /\ ~exited

\* C18: with several callers of getPool() before the first initialization has
\* completed, initializeDatabase runs at most once, at most one pool is
\* created and all callers get that pool.
C18_SingleInitialization ==
    /\ inits <= 1
    /\ Len(pools) <= 1
    /\ \A c \in Callers, k \in Callers :
        (loc[c].got # 0 /\ loc[k].got # 0) => loc[c].got = loc[k].got

====
